---- MODULE Spec2Model ----
(***************************************************************************)
(* A model of the video-moderation pipeline: the workflow                  *)
(* processVideoUpload with its steps (src/lib/video-storage.ts,            *)
(* src/workflows/steps), the rating function calculateRating               *)
(* (src/ai/providers/gemini-provider.ts) and the client read loop of       *)
(* handleUpload (src/components/upload-video-dialog.tsx).                  *)
(*                                                                         *)
(* An optional value (null or a value) is a sequence of length 0 or 1.     *)
(* A step that is awaited is one position of the workflow (pc) or one      *)
(* phase of a frame task; the action that ends the step also runs the      *)
(* synchronous code that follows it up to the next await.                  *)
(***************************************************************************)
EXTENDS Integers, Sequences, FiniteSets, TLC

\* ------------------------------------------------------------------ bounds

\* Largest number of frames extractFrames returns in Spec.
MaxFrames == 2
\* Largest number of executions of the upload step (first run and retries).
MaxUploadAttempts == 2
\* Largest number of frames in SpecLimit (above the concurrency ceiling).
MaxLimitFrames == 12
\* Largest number of categories of an analysis that differ from "not
\* detected, confidence 1" in SpecRating.
MaxVaried == 2
\* Largest number of records written to the stream in SpecClient.
MaxEvents == 2
\* Number of writeProgress executions running side by side in SpecWriters.
MaxWriters == 3
\* Largest size of a chunk that is not all the bytes in flight in SpecCut.
MaxChunk == 3
\* Largest number of frames of a job in SpecPercent.
MaxTotal == 50
\* Number of bytes of the video downloaded in SpecExtract.
VideoBytes == 2

\* ------------------------------------------------------- program constants

\* const MAX_CONCURRENT = 10
MAX_CONCURRENT == 10
\* const timestamp = index * 5
FrameInterval == 5
\* category.confidence >= 3
ConfidenceThreshold == 3

None == <<>>
Some(x) == <<x>>

\* ------------------------------------------------------------------ state

VARIABLES
    pc,             \* the await at which processVideoUpload is suspended
    stream,         \* the records written to the writable, in order
    videoUrl,       \* let videoUrl: string | null
    blobs,          \* the objects held by blob storage
    blobSeq,        \* number of put calls so far (source of the random suffix)
    uploadAttempts, \* executions of the uploadVideoToBlob step so far
    uploadedUrls,   \* the url of every execution of uploadVideoToBlob
    frames,         \* const frames = await extractFrames(...)
    tasks,          \* the frame tasks handed to limit(...), by frame index
    activeCount,    \* p-limit: tasks running
    queue,          \* p-limit: tasks waiting, oldest first
    processedCount, \* let processedCount = 0
    caught,         \* the exception the catch block received
    thrown,         \* the exception that left processVideoUpload
    returned,       \* the value processVideoUpload returned
    delCalls,       \* the deleteVideoBlob calls made: call site and outcome
    faults,         \* kinds of step failure seen so far
    answers,        \* the analyses the classification model may answer with
    written,        \* the records writeProgress has put on the stream
    wire,           \* the bytes written and not yet read by the client
    closed,         \* the stream has ended on the server side
    buffer,         \* let buffer = "" of the read loop
    pendingByte,    \* bytes the TextDecoder holds back between chunks
    dispatched,     \* the updates the read loop has dispatched, in order
    readerDone,     \* the read loop has been left
    ui,             \* the state of the upload dialog
    calls,          \* the writeProgress step executions running side by side
    channel,        \* the bytes the stream holds, in the order they arrived
    extraction,     \* one execution of extractFrames and its local files
    percentOf,      \* one evaluation of the percent of a frameProcessed record
    storage,        \* localStorage: the item stored under STORAGE_KEY
    storeCall       \* the last call of a function of the video store

wfVars == <<pc, stream, videoUrl, blobs, blobSeq, uploadAttempts, uploadedUrls,
            frames, tasks, activeCount, queue, processedCount, caught, thrown,
            returned, delCalls, faults>>

\* what the workflow's actions leave alone
clientVars == <<written, wire, closed, buffer, pendingByte, dispatched,
                readerDone, ui>>

\* what the concurrent writeProgress executions work on
writerVars == <<calls, channel>>

\* what one execution of extractFrames works on
extractVars == <<extraction>>

\* what an evaluation of the percent expression works on
percentVars == <<percentOf>>

\* what the functions of the video store work on
storeVars == <<storage, storeCall>>

aux == <<answers, clientVars, writerVars, extractVars, percentVars, storeVars>>

vars == <<wfVars, aux>>

\* ---------------------------------------------------------------- helpers

Max(a, b) == IF a >= b THEN a ELSE b
Min(a, b) == IF a <= b THEN a ELSE b

RECURSIVE SetMax(_)
SetMax(S) ==
    IF S = {} THEN 0
    ELSE LET x == CHOOSE y \in S : TRUE IN Max(x, SetMax(S \ {x}))

RECURSIVE Concat(_)
\* the concatenation of a sequence of sequences
Concat(ss) ==
    IF ss = <<>> THEN <<>>
    ELSE IF Len(ss) = 1 THEN ss[1]
    ELSE LET half == Len(ss) \div 2
         IN Concat(SubSeq(ss, 1, half)) \o Concat(SubSeq(ss, half + 1, Len(ss)))

Err(kind, at) == [kind |-> kind, at |-> at]

\* ---------------------------------------------------------- content rating

SixteenPlus == {"cursing", "moderate_violence", "strong_language",
                "mild_sexual_content"}
EighteenPlus == {"nudity", "drug_use", "rape", "murder", "stabbing", "gore",
                 "extreme_profanity", "disturbing_themes"}
Categories == SixteenPlus \cup EighteenPlus

\* categoryDetectionSchema: detected, confidence 1..5 (the reason text is left out)
Detection(d, c) == [detected |-> d, confidence |-> c]
Detections == [detected : BOOLEAN, confidence : 1..5]
Undetected == Detection(FALSE, 1)

\* Counts with a fault seeded: the detected flag is not looked at.
CountsIgnoringDetected(analysis, tier) ==
    Cardinality({c \in tier : analysis[c].confidence >= ConfidenceThreshold})

\* Counts with a fault seeded: the threshold is compared with >.
CountsAboveThreshold(analysis, tier) ==
    Cardinality({c \in tier : analysis[c].detected
                              /\ analysis[c].confidence > ConfidenceThreshold})

\* "Count detections with confidence >= 3" for one tier
Counts(analysis, tier) ==
    Cardinality({c \in tier : analysis[c].detected
                              /\ analysis[c].confidence >= ConfidenceThreshold})

calculateRating(analysis) ==
    LET s == Counts(analysis, SixteenPlus)
        e == Counts(analysis, EighteenPlus)
    IN [rating |-> IF e > 0 THEN "18+" ELSE IF s > 0 THEN "16+" ELSE "safe",
        sixteenPlusDetections |-> s,
        eighteenPlusDetections |-> e,
        analysis |-> analysis,
        highestConfidence |-> SetMax({analysis[c].confidence : c \in Categories})]

\* moderateFrame, the try branch: moderateContentSync returned `rated`.
\* confidence is kept in tenths (highestConfidence / 5 = 2 * highestConfidence / 10).
ModerateFrameRated(rated) ==
    IF rated.rating = "16+" \/ rated.rating = "18+"
    THEN [isFlagged |-> TRUE, confidence |-> 2 * rated.highestConfidence,
          rating |-> rated.rating, analysis |-> Some(rated.analysis),
          fallback |-> FALSE]
    ELSE [isFlagged |-> FALSE, confidence |-> 0, rating |-> "safe",
          analysis |-> None, fallback |-> FALSE]

\* Math.random() * 0.3 + 0.7, in tenths: one sample value of [0.7, 1.0)
FallbackConfidences == {8}

\* moderateFrame, the catch branch: moderateContentSync threw or timed out.
\* flagged is Math.random() < 0.2.
ModerateFrameFallback(flagged, conf) ==
    IF flagged
    THEN [isFlagged |-> TRUE, confidence |-> conf, rating |-> "18+",
          analysis |-> None, fallback |-> TRUE]
    ELSE [isFlagged |-> FALSE, confidence |-> 0, rating |-> "safe",
          analysis |-> None, fallback |-> TRUE]

\* An analysis in which the categories of `varied` take the detections given
\* and every other category is not detected with confidence 1.
AnalysisWith(varied) ==
    [c \in Categories |-> IF c \in DOMAIN varied THEN varied[c] ELSE Undetected]

OneCategory(c, d, conf) == AnalysisWith([x \in {c} |-> Detection(d, conf)])

\* The classifications the model answers with in Spec.
SampleAnalyses ==
    { AnalysisWith([x \in {} |-> Undetected]),
      OneCategory("nudity", TRUE, 3),
      OneCategory("nudity", TRUE, 2),
      OneCategory("cursing", TRUE, 4) }

\* ------------------------------------------------------------ blob storage

BlobKey(name, suffix) == [name |-> name, suffix |-> suffix]

\* put(name, data, {addRandomSuffix}): the key under which the object is
\* stored; a name is a tuple of path segments. A random suffix is one no earlier put has drawn; without it the key
\* is the name itself (suffix 0).
PutKey(name, addRandomSuffix, seq) ==
    IF addRandomSuffix THEN BlobKey(name, seq + 1) ELSE BlobKey(name, 0)

\* put fails with "This blob already exists" when the key is taken.
PutCollides(store, key) == key \in store

\* VideoPutKey with a fault seeded: addRandomSuffix is not passed.
VideoPutKeyNoSuffix(seq) == PutKey(<<"video">>, FALSE, seq)

\* uploadVideoToBlob: put(filename, videoBuffer, {addRandomSuffix: true})
VideoPutKey(seq) == PutKey(<<"video">>, TRUE, seq)

\* uploadScreenshotToBlob: put(`screenshots/${filename}`, buffer, {addRandomSuffix: true})
ScreenshotPutKey(filename, seq) == PutKey(<<"screenshots", filename>>, TRUE, seq)

\* ---------------------------------------------------------- stream records

ProgressRec(step, percent) ==
    [type |-> "progress", step |-> step, percent |-> percent]

ExtractedRec(n) ==
    [type |-> "progress", step |-> "extracted", totalFrames |-> n, percent |-> 40]

\* The percent expression is evaluated in IEEE 754 double arithmetic: the
\* quotient is rounded to 53 significant bits, and so is its product with 50.
\* For 1 <= count <= total < 1024 the outcome is computed here exactly, in
\* integers. With k = floor(50 * count / total): when 50 * count / total is
\* not an integer it is at least 1 / total away from one, far more than the
\* two roundings move it, and the floor is k. When it is the integer k, the
\* quotient is m / 2^e with m = round(count * 2^e / total), e = 52 + j, and
\* a = count * 2^e mod total tells how it was rounded: not at all (a = 0),
\* up (2a > total), or down by a / (total * 2^e). Rounded down, the product
\* is k - 50 * a / (total * 2^e), and it is rounded to the double below k,
\* not to k, when it is nearer to that one: the doubles below k are
\* 2^(E - 52) apart, so when 100 * a > total * 2^(j + E).

\* 2^e mod t
RECURSIVE PowerOfTwoMod(_, _)
PowerOfTwoMod(e, t) ==
    IF e <= 15 THEN (2 ^ e) % t
    ELSE (((2 ^ 15) % t) * PowerOfTwoMod(e - 15, t)) % t

\* the least j with count * 2^j >= total
RECURSIVE BinaryPlaces(_, _)
BinaryPlaces(count, total) ==
    IF count >= total THEN 0 ELSE 1 + BinaryPlaces(2 * count, total)

\* the E with 2^E < k <= 2^(E + 1)
RECURSIVE ExponentBelow(_)
ExponentBelow(k) == IF k <= 1 THEN -1 ELSE 1 + ExponentBelow((k + 1) \div 2)

\* FloorOfScaledRatio with a fault seeded: the scale is 60.
FloorOfScaledRatioBySixty(count, total) == (count * 60) \div total

\* Math.floor((processedCount / totalFrames) * 50)
FloorOfScaledRatio(count, total) ==
    LET k == (count * 50) \div total
        j == BinaryPlaces(count, total)
        a == (count * PowerOfTwoMod(52 + j, total)) % total
    IN IF /\ (count * 50) % total = 0
          /\ 2 * a < total
          /\ 100 * a > total * (2 ^ (j + ExponentBelow(k)))
       THEN k - 1
       ELSE k

\* 40 + Math.floor((processedCount / totalFrames) * 50)
FramePercent(count, total) == 40 + FloorOfScaledRatio(count, total)

\* FrameProcessedRec with a fault seeded: the count is read before the
\* increment.
FrameProcessedRecBeforeIncrement(count, total) ==
    [type |-> "frameProcessed", current |-> count - 1, total |-> total,
     percent |-> FramePercent(count, total)]

FrameProcessedRec(count, total) ==
    [type |-> "frameProcessed", current |-> count, total |-> total,
     percent |-> FramePercent(count, total)]

CompleteRec(result) == [type |-> "complete", percent |-> 100, result |-> result]

ErrorRec(e) == [type |-> "error", message |-> e.kind]

IsTerminal(r) == r.type \in {"complete", "error"}
HasPercent(r) == r.type \in {"progress", "frameProcessed"}

\* ------------------------------------------------------------- the limiter

\* CanAdmit with a fault seeded: the ceiling is compared with <=.
CanAdmitInclusive(active) == active <= MAX_CONCURRENT

\* p-limit: a task may start while activeCount < concurrency
CanAdmit(active) == active < MAX_CONCURRENT

\* A frame task: its phase, the frameProcessed record it is writing, the
\* value it resolves with, and what the classification and moderateFrame
\* gave for its frame.
NewTask == [phase |-> "queued", rec |-> None, incident |-> None,
            rated |-> None, moderation |-> None]

\* limit(fn): run the task at once when a slot is free, else enqueue it.
Submit(st, i) ==
    IF CanAdmit(st.active)
    THEN [st EXCEPT !.tasks[i].phase = "analysing", !.active = @ + 1]
    ELSE [st EXCEPT !.queue = Append(@, i)]

RECURSIVE SubmitAll(_, _, _)
\* frames.map((frame, index) => limit(...)): submit tasks i..n in index order
SubmitAll(st, i, n) ==
    IF i > n THEN st ELSE SubmitAll(Submit(st, i), i + 1, n)

\* Release with a fault seeded: fixed batches, the next waiting task starts
\* only when every running task has settled.
ReleaseWhenDrained(st) ==
    LET a == st.active - 1 IN
    IF st.queue # <<>> /\ a = 0
    THEN [st EXCEPT !.tasks[Head(st.queue)].phase = "analysing",
                    !.queue = Tail(@), !.active = a + 1]
    ELSE [st EXCEPT !.active = a]

\* p-limit when a task settles: free the slot, start the oldest waiting task.
Release(st) ==
    LET a == st.active - 1 IN
    IF st.queue # <<>> /\ CanAdmit(a)
    THEN [st EXCEPT !.tasks[Head(st.queue)].phase = "analysing",
                    !.queue = Tail(@), !.active = a + 1]
    ELSE [st EXCEPT !.active = a]

Limiter == [tasks |-> tasks, queue |-> queue, active |-> activeCount]

SetLimiter(st) ==
    /\ tasks' = st.tasks
    /\ queue' = st.queue
    /\ activeCount' = st.active

\* ------------------------------------------------- the progress wire format

\* A JavaScript string is a sequence of characters, each of them a string of
\* one character here; EAcute stands for a character whose UTF-8 encoding
\* takes two bytes, Replacement for U+FFFD.
NL == "\n"
EAcute == "U+00E9"
Replacement == "U+FFFD"
LeadByte == "0xC3"
ContByte == "0xA9"

\* the words of the wire protocol, spelled out
Spell ==
    [type |-> <<"t", "y", "p", "e">>,
     step |-> <<"s", "t", "e", "p">>,
     percent |-> <<"p", "e", "r", "c", "e", "n", "t">>,
     message |-> <<"m", "e", "s", "s", "a", "g", "e">>,
     current |-> <<"c", "u", "r", "r", "e", "n", "t">>,
     total |-> <<"t", "o", "t", "a", "l">>,
     totalFrames |-> <<"t", "o", "t", "a", "l", "F", "r", "a", "m", "e", "s">>,
     result |-> <<"r", "e", "s", "u", "l", "t">>,
     incidents |-> <<"i", "n", "c", "i", "d", "e", "n", "t", "s">>,
     metadata |-> <<"m", "e", "t", "a", "d", "a", "t", "a">>,
     filename |-> <<"f", "i", "l", "e", "n", "a", "m", "e">>,
     processedAt |-> <<"p", "r", "o", "c", "e", "s", "s", "e", "d", "A", "t">>,
     progress |-> <<"p", "r", "o", "g", "r", "e", "s", "s">>,
     frameProcessed |-> <<"f", "r", "a", "m", "e", "P", "r", "o", "c", "e", "s", "s", "e", "d">>,
     complete |-> <<"c", "o", "m", "p", "l", "e", "t", "e">>,
     error |-> <<"e", "r", "r", "o", "r">>,
     started |-> <<"s", "t", "a", "r", "t", "e", "d">>,
     uploaded |-> <<"u", "p", "l", "o", "a", "d", "e", "d">>,
     extracted |-> <<"e", "x", "t", "r", "a", "c", "t", "e", "d">>,
     cleanup |-> <<"c", "l", "e", "a", "n", "u", "p">>]

Str(word) == Spell[word]

\* JSON values: strings, numbers, arrays, and objects as their members in
\* insertion order
JStr(chars) == [str |-> chars]
JNum(n) == [num |-> n]
JArr(items) == [arr |-> items]
JObj(members) == [obj |-> members]
Undefined == [undefined |-> TRUE]

IsStr(v) == DOMAIN v = {"str"}
IsNum(v) == DOMAIN v = {"num"}
IsArr(v) == DOMAIN v = {"arr"}
IsObj(v) == DOMAIN v = {"obj"}

\* update.key
RECURSIVE GetMember(_, _)
GetMember(members, key) ==
    IF members = <<>> THEN Undefined
    ELSE LET last == members[Len(members)]
         IN IF last[1] = key THEN last[2]
            ELSE GetMember(SubSeq(members, 1, Len(members) - 1), key)

Get(v, word) == IF IsObj(v) THEN GetMember(v.obj, Str(word)) ELSE Undefined

\* JSON.stringify of one character of a string
Escape(c) ==
    CASE c = "\"" -> <<"\\", "\"">>
      [] c = "\\" -> <<"\\", "\\">>
      [] c = NL   -> <<"\\", "n">>
      [] OTHER    -> <<c>>

Quote(chars) ==
    <<"\"">> \o Concat([k \in 1..Len(chars) |-> Escape(chars[k])]) \o <<"\"">>

DigitChar == <<"0", "1", "2", "3", "4", "5", "6", "7", "8", "9">>

RECURSIVE Digits(_)
Digits(n) ==
    IF n < 10 THEN <<DigitChar[n + 1]>>
    ELSE Digits(n \div 10) \o <<DigitChar[(n % 10) + 1]>>

RECURSIVE Stringify(_)
RECURSIVE StringifyItems(_)
RECURSIVE StringifyMembers(_)

\* JSON.stringify(data)
Stringify(v) ==
    IF IsStr(v) THEN Quote(v.str)
    ELSE IF IsNum(v) THEN Digits(v.num)
    ELSE IF IsArr(v) THEN <<"[">> \o StringifyItems(v.arr) \o <<"]">>
    ELSE <<"{">> \o StringifyMembers(v.obj) \o <<"}">>

StringifyItems(items) ==
    IF items = <<>> THEN <<>>
    ELSE Stringify(items[1])
         \o (IF Len(items) > 1 THEN <<",">> ELSE <<>>)
         \o StringifyItems(Tail(items))

StringifyMembers(members) ==
    IF members = <<>> THEN <<>>
    ELSE Quote(members[1][1]) \o <<":">> \o Stringify(members[1][2])
         \o (IF Len(members) > 1 THEN <<",">> ELSE <<>>)
         \o StringifyMembers(Tail(members))

\* const message = JSON.stringify(data) + "\n"
Message(data) == Stringify(data) \o <<NL>>

\* encoder.encode(message): UTF-8
EncodeChar(c) == IF c = EAcute THEN <<LeadByte, ContByte>> ELSE <<c>>
Encode(chars) == Concat([k \in 1..Len(chars) |-> EncodeChar(chars[k])])

\* decoder.decode(value, {stream: true}): what the decoder puts out on
\* byte k, given whether it holds a lead byte when the chunk begins. A lead
\* byte is held back until the next byte, of this chunk or of the next one,
\* completes the character or shows it malformed.
DecodedAt(bytes, k, held) ==
    LET afterLead == IF k = 1 THEN held ELSE bytes[k - 1] = LeadByte
    IN IF bytes[k] = ContByte
       THEN IF afterLead THEN <<EAcute>> ELSE <<Replacement>>
       ELSE IF bytes[k] = LeadByte
       THEN IF afterLead THEN <<Replacement>> ELSE <<>>
       ELSE IF afterLead THEN <<Replacement, bytes[k]>> ELSE <<bytes[k]>>

\* (bytes that are all of one-byte characters decode to themselves)
DecodeFrom(bytes, pend) ==
    [text |-> IF pend = None
                 /\ \A k \in 1..Len(bytes) : bytes[k] \notin {LeadByte, ContByte}
              THEN bytes
              ELSE Concat([k \in 1..Len(bytes) |-> DecodedAt(bytes, k, pend # None)]),
     pending |-> IF bytes = <<>> THEN pend
                 ELSE IF bytes[Len(bytes)] = LeadByte THEN Some(LeadByte)
                 ELSE None]

Decode(pend, bytes) == DecodeFrom(bytes, pend)

\* buffer.split("\n"): the texts between the newlines, in order
Newlines(chars) == {k \in 1..Len(chars) : chars[k] = NL}

Split(chars) ==
    LET nl == Newlines(chars)
        count == Cardinality(nl)
        \* the position of the i-th newline; 0 for i = 0, one past the end
        \* for i = count + 1
        Nth(i) == IF i = 0 THEN 0
                  ELSE IF i > count THEN Len(chars) + 1
                  ELSE CHOOSE p \in nl : Cardinality({q \in nl : q < p}) = i - 1
    IN [i \in 1..(count + 1) |-> SubSeq(chars, Nth(i - 1) + 1, Nth(i) - 1)]

\* !line.trim()
Whitespace == {" ", "\t", "\r", NL}
IsBlank(line) == \A k \in 1..Len(line) : line[k] \in Whitespace

\* JSON.parse(line), for the texts JSON.stringify writes: white space is
\* accepted around the value, not between its tokens
Fail == [ok |-> FALSE, val |-> Undefined, next |-> 0]
Ok(v, n) == [ok |-> TRUE, val |-> v, next |-> n]
At(s, k) == IF k \in 1..Len(s) THEN s[k] ELSE ""

IsDigit(c) == \E d \in 1..10 : DigitChar[d] = c
DigitValue(c) == (CHOOSE d \in 1..10 : DigitChar[d] = c) - 1

\* the characters of a string literal from position k up to its closing quote
RECURSIVE ParseChars(_, _, _)
ParseChars(s, k, acc) ==
    IF k > Len(s) THEN Fail
    ELSE IF s[k] = "\"" THEN Ok(acc, k + 1)
    ELSE IF s[k] = "\\"
         THEN IF At(s, k + 1) \in {"\"", "\\"}
              THEN ParseChars(s, k + 2, Append(acc, s[k + 1]))
              ELSE IF At(s, k + 1) = "n"
                   THEN ParseChars(s, k + 2, Append(acc, NL))
                   ELSE Fail
    ELSE IF s[k] \in {NL, "\t", "\r"} THEN Fail
    ELSE ParseChars(s, k + 1, Append(acc, s[k]))

ParseString(s, k) == IF At(s, k) = "\"" THEN ParseChars(s, k + 1, <<>>) ELSE Fail

RECURSIVE ParseDigits(_, _, _)
ParseDigits(s, k, acc) ==
    IF IsDigit(At(s, k)) THEN ParseDigits(s, k + 1, (acc * 10) + DigitValue(s[k]))
    ELSE Ok(JNum(acc), k)

ParseNumber(s, k) ==
    IF At(s, k) = "0" THEN Ok(JNum(0), k + 1)
    ELSE IF IsDigit(At(s, k)) THEN ParseDigits(s, k, 0)
    ELSE Fail

RECURSIVE ParseValue(_, _)
RECURSIVE ParseItems(_, _, _)
RECURSIVE ParseMembers(_, _, _)

ParseValue(s, k) ==
    LET c == At(s, k)
    IN IF c = "\""
       THEN LET r == ParseString(s, k)
            IN IF r.ok THEN Ok(JStr(r.val), r.next) ELSE Fail
       ELSE IF IsDigit(c) THEN ParseNumber(s, k)
       ELSE IF c = "["
            THEN IF At(s, k + 1) = "]" THEN Ok(JArr(<<>>), k + 2)
                 ELSE ParseItems(s, k + 1, <<>>)
       ELSE IF c = "{"
            THEN IF At(s, k + 1) = "}" THEN Ok(JObj(<<>>), k + 2)
                 ELSE ParseMembers(s, k + 1, <<>>)
       ELSE Fail

ParseItems(s, k, acc) ==
    LET r == ParseValue(s, k)
    IN IF ~r.ok THEN Fail
       ELSE IF At(s, r.next) = ","
            THEN ParseItems(s, r.next + 1, Append(acc, r.val))
       ELSE IF At(s, r.next) = "]"
            THEN Ok(JArr(Append(acc, r.val)), r.next + 1)
       ELSE Fail

ParseMembers(s, k, acc) ==
    LET key == ParseString(s, k)
    IN IF ~key.ok \/ At(s, key.next) # ":" THEN Fail
       ELSE LET r == ParseValue(s, key.next + 1)
            IN IF ~r.ok THEN Fail
               ELSE IF At(s, r.next) = ","
                    THEN ParseMembers(s, r.next + 1, Append(acc, <<key.val, r.val>>))
               ELSE IF At(s, r.next) = "}"
                    THEN Ok(JObj(Append(acc, <<key.val, r.val>>)), r.next + 1)
               ELSE Fail

RECURSIVE Trim(_)
Trim(s) ==
    IF s = <<>> THEN s
    ELSE IF s[1] \in Whitespace THEN Trim(Tail(s))
    ELSE IF s[Len(s)] \in Whitespace THEN Trim(SubSeq(s, 1, Len(s) - 1))
    ELSE s

\* JSON.parse(line): the value, or nothing when it throws a SyntaxError
JSONparse(line) ==
    LET s == Trim(line)
        r == ParseValue(s, 1)
    IN IF r.ok /\ r.next = Len(s) + 1 THEN Some(r.val) ELSE None

\* ------------------------------------------------------ the upload dialog

StageIds == <<"started", "upload", "extract", "process", "cleanup">>

Stage(status, description) == [status |-> status, description |-> description]

NoText == <<>>

\* setWorkflowStages([...]) at the start of handleUpload
ResetStages ==
    [id \in {StageIds[k] : k \in 1..Len(StageIds)} |->
        Stage(IF id = "started" THEN "in_progress" ELSE "pending", NoText)]

\* updateStageStatus(stageId, status, description)
updateStageStatus(stages, stageId, status, description) ==
    [id \in DOMAIN stages |->
        IF id = stageId THEN Stage(status, description) ELSE stages[id]]

\* JavaScript truthiness of a parsed value
Truthy(v) ==
    /\ v # Undefined
    /\ IsNum(v) => v.num # 0
    /\ IsStr(v) => v.str # <<>>

IsType(update, word) == Get(update, "type") = JStr(Str(word))
IsStep(update, word) == Get(update, "step") = JStr(Str(word))

\* the branches of the dispatch on update.type
DispatchedTypes == {"progress", "frameProcessed", "complete", "error"}
IsDispatched(update) == \E w \in DispatchedTypes : IsType(update, w)

\* workflowResultToFlaggedVideo(update.result, update.result.metadata)
\* returns, instead of throwing on a field it reads
CanConvert(result) ==
    /\ IsArr(Get(result, "incidents"))
    /\ IsStr(Get(Get(result, "metadata"), "filename"))
    /\ IsStr(Get(result, "processedAt"))

OnProgress(u, update) ==
    LET p == [u EXCEPT !.progress = Get(update, "percent")]
    IN IF IsStep(update, "started")
       THEN [p EXCEPT !.stages =
                updateStageStatus(
                    updateStageStatus(p.stages, "started", "completed", NoText),
                    "upload", "in_progress", NoText)]
       ELSE IF IsStep(update, "uploaded")
       THEN [p EXCEPT !.stages =
                updateStageStatus(
                    updateStageStatus(p.stages, "upload", "completed", NoText),
                    "extract", "in_progress", NoText),
                       !.uploadState = "processing"]
       ELSE IF IsStep(update, "extracted")
       THEN [p EXCEPT !.stages =
                updateStageStatus(
                    updateStageStatus(p.stages, "extract", "completed",
                        IF Truthy(Get(update, "totalFrames"))
                        THEN <<"frames extracted", Get(update, "totalFrames")>>
                        ELSE NoText),
                    "process", "in_progress", <<"Starting frame processing...">>)]
       ELSE IF IsStep(update, "cleanup")
       THEN [p EXCEPT !.stages =
                updateStageStatus(
                    updateStageStatus(p.stages, "process", "completed", NoText),
                    "cleanup", "in_progress", NoText)]
       ELSE p

\* OnFrameProcessed with a fault seeded: the stage marked is "extract".
OnFrameProcessedWrongStage(u, update) ==
    [u EXCEPT !.progress = Get(update, "percent"),
              !.uploadState = "processing",
              !.stages = updateStageStatus(u.stages, "extract", "in_progress",
                             <<"Processing frames", Get(update, "current"),
                               Get(update, "total")>>)]

OnFrameProcessed(u, update) ==
    [u EXCEPT !.progress = Get(update, "percent"),
              !.uploadState = "processing",
              !.stages = updateStageStatus(u.stages, "process", "in_progress",
                             <<"Processing frames", Get(update, "current"),
                               Get(update, "total")>>)]

OnComplete(u, update) ==
    [u EXCEPT !.progress = JNum(100),
              !.uploadResult = Get(update, "result"),
              !.uploadState = "success",
              !.stages = updateStageStatus(u.stages, "cleanup", "completed", NoText),
              !.saved = IF CanConvert(Get(update, "result"))
                        THEN <<Get(update, "result")>> \o u.saved
                        ELSE u.saved]

OnError(u, update) ==
    [u EXCEPT !.uploadState = "error",
              !.errorMessage = Get(update, "message")]

\* if (update.type === "progress") ... else if ... "error"
Dispatch(u, update) ==
    IF IsType(update, "progress") THEN OnProgress(u, update)
    ELSE IF IsType(update, "frameProcessed") THEN OnFrameProcessed(u, update)
    ELSE IF IsType(update, "complete") THEN OnComplete(u, update)
    ELSE IF IsType(update, "error") THEN OnError(u, update)
    ELSE u

\* ProcessLines with a fault seeded: JSON.parse is not inside a try block,
\* its exception leaves the read loop and reaches the outer catch block.
RECURSIVE ProcessLinesUnguarded(_, _)
ProcessLinesUnguarded(st, lines) ==
    IF lines = <<>> THEN st
    ELSE LET line == Head(lines)
             parsed == JSONparse(line)
         IN IF IsBlank(line)
            THEN ProcessLinesUnguarded(st, Tail(lines))
            ELSE IF parsed = None
            THEN [st EXCEPT !.ui.uploadState = "error"]
            ELSE ProcessLinesUnguarded(
                    [ui |-> Dispatch(st.ui, parsed[1]),
                     dispatched |-> IF IsDispatched(parsed[1])
                                    THEN Append(st.dispatched, parsed[1])
                                    ELSE st.dispatched],
                    Tail(lines))

\* for (const line of lines) { ... }
RECURSIVE ProcessLines(_, _)
ProcessLines(st, lines) ==
    IF lines = <<>> THEN st
    ELSE LET line == Head(lines)
             parsed == JSONparse(line)
         IN IF IsBlank(line) \/ parsed = None
            THEN ProcessLines(st, Tail(lines))
            ELSE ProcessLines(
                    [ui |-> Dispatch(st.ui, parsed[1]),
                     dispatched |-> IF IsDispatched(parsed[1])
                                    THEN Append(st.dispatched, parsed[1])
                                    ELSE st.dispatched],
                    Tail(lines))

\* Remainder with a fault seeded: the text after the last newline is dropped.
RemainderDropped(segments) == <<>>

\* buffer = lines.pop() || ""
Remainder(segments) == segments[Len(segments)]

\* ProcessChunk with a fault seeded: the text after the last newline is
\* parsed as well.
ProcessChunkEager(st, chunk) ==
    LET d == Decode(st.pending, chunk)
        segments == Split(st.buffer \o d.text)
        after == ProcessLines([ui |-> st.ui, dispatched |-> st.dispatched],
                              segments)
    IN [ui |-> after.ui, dispatched |-> after.dispatched,
        buffer |-> Remainder(segments), pending |-> d.pending]

\* one turn of the read loop for a chunk that is not the end of the stream
ProcessChunk(st, chunk) ==
    LET d == Decode(st.pending, chunk)
        segments == Split(st.buffer \o d.text)
        after == ProcessLines([ui |-> st.ui, dispatched |-> st.dispatched],
                              SubSeq(segments, 1, Len(segments) - 1))
    IN [ui |-> after.ui, dispatched |-> after.dispatched,
        buffer |-> Remainder(segments), pending |-> d.pending]

Null == [null |-> TRUE]

\* handleUpload up to its first reader.read(): the stages are reset, the
\* state is "uploading", the progress 5, and nothing has been received
ClientStart ==
    /\ written = <<>>
    /\ wire = <<>>
    /\ closed = FALSE
    /\ buffer = <<>>
    /\ pendingByte = None
    /\ dispatched = <<>>
    /\ readerDone = FALSE
    /\ ui = [uploadState |-> "uploading", progress |-> JNum(5),
             stages |-> ResetStages, uploadResult |-> Null,
             errorMessage |-> JStr(<<>>), saved |-> <<>>]

\* a writeProgress execution that has not begun: the handle its step receives
\* is unlocked and nothing has been written through it
NotCalled ==
    [phase |-> "idle", data |-> Null, pending |-> <<>>, attempts |-> 0,
     locked |-> FALSE]

\* no writeProgress execution has begun and the stream holds nothing
WritersStart ==
    /\ calls = [c \in 1..MaxWriters |-> NotCalled]
    /\ channel = <<>>

\* extractFrames has not been called: no local file exists
NotExtracting ==
    [pc |-> "idle", videoFile |-> FALSE, framesDir |-> FALSE, frameFiles |-> {},
     read |-> {}, fetched |-> 0, written |-> None, fetches |-> 0,
     ffmpegCalls |-> 0, error |-> None]

ExtractionStart == extraction = NotExtracting

\* the percent expression has not been evaluated
PercentStart == percentOf = None

\* localStorage.getItem(STORAGE_KEY) === null, and no call made yet
StoreStart ==
    /\ storage = None
    /\ storeCall = None

\* ------------------------------------------------------------ the workflow

NumFrames == Len(frames)

\* FrameTimestamp with a fault seeded: the index is taken 1-based.
FrameTimestampOneBased(index) == (index + 1) * FrameInterval

\* const timestamp = index * 5, index 0-based
FrameTimestamp(index) == index * FrameInterval

\* extractFrames: the frame read i-th (i = 1..n) has index i - 1
ExtractedFrames(n) ==
    [i \in 1..n |-> [timestamp |-> FrameTimestamp(i - 1), filename |-> i]]

\* FilterIncidents with a fault seeded: the incidents are collected from the
\* last frame to the first.
FilterIncidentsNewestFirst(ts) ==
    Concat([i \in 1..Len(ts) |-> ts[Len(ts) + 1 - i].incident])

\* FilterIncidents with a fault seeded: the incidents are collected in the
\* order in which their screenshots were stored (the order of completion).
FilterIncidentsByCompletion(ts) ==
    SortSeq(Concat([i \in 1..Len(ts) |-> ts[i].incident]),
            LAMBDA a, b : a.screenshotUrl.suffix < b.screenshotUrl.suffix)

\* const incidents = allResults.filter((incident) => incident !== null)
FilterIncidents(ts) == Concat([i \in 1..Len(ts) |-> ts[i].incident])

\* const result = {incidents, totalFrames: frames.length, ...}
JobResult(ts, n) == [incidents |-> FilterIncidents(ts), totalFrames |-> n]

\* AllResolved with a fault seeded: the first task to resolve ends the wait
\* (Promise.race in the place of Promise.all).
AnyResolved(ts) == \E i \in 1..Len(ts) : ts[i].phase = "done"

\* await Promise.all(...): every frame task has resolved
AllResolved(ts) == \A i \in 1..Len(ts) : ts[i].phase = "done"

\* the writeProgress calls of the try block
TryWrites == {"w_started", "w_uploaded", "w_extracted", "w_cleanup", "w_complete"}

Terminated == pc \in {"returned", "thrown"}

Init ==
    /\ pc = "w_started"
    /\ stream = <<>>
    /\ videoUrl = None
    /\ blobs = {}
    /\ blobSeq = 0
    /\ uploadAttempts = 0
    /\ uploadedUrls = <<>>
    /\ frames = <<>>
    /\ tasks = <<>>
    /\ activeCount = 0
    /\ queue = <<>>
    /\ processedCount = 0
    /\ caught = None
    /\ thrown = None
    /\ returned = None
    /\ delCalls = <<>>
    /\ faults = {}
    /\ answers = SampleAnalyses
    /\ ClientStart
    /\ WritersStart
    /\ ExtractionStart
    /\ PercentStart
    /\ StoreStart

\* catch (error) { await writeProgress(writable, {type: "error", ...})
EnterCatch(e) ==
    /\ caught' = Some(e)
    /\ pc' = "w_error"

\* writeProgress(started) wrote its line; uploadVideoToBlob is called.
StartedWritten ==
    /\ pc = "w_started"
    /\ stream' = Append(stream, ProgressRec("started", 5))
    /\ pc' = "uploading"
    /\ UNCHANGED <<videoUrl, blobs, blobSeq, uploadAttempts, uploadedUrls, frames,
                   tasks, activeCount, queue, processedCount, caught, thrown,
                   returned, delCalls, faults>>
    /\ UNCHANGED aux

\* A writeProgress call of the try block throws (writer.write rejects).
TryWriteFails ==
    /\ pc \in TryWrites
    /\ EnterCatch(Err("write", pc))
    /\ faults' = faults \cup {"write"}
    /\ UNCHANGED <<stream, videoUrl, blobs, blobSeq, uploadAttempts, uploadedUrls,
                   frames, tasks, activeCount, queue, processedCount, thrown,
                   returned, delCalls>>
    /\ UNCHANGED aux

\* uploadVideoToBlob stores the video and returns its url; the uploaded
\* record is written next. put throws when the key is taken.
UploadVideoReturns ==
    /\ pc = "uploading"
    /\ uploadAttempts < MaxUploadAttempts
    /\ LET key == VideoPutKey(blobSeq) IN
       IF PutCollides(blobs, key)
       THEN /\ EnterCatch(Err("blob already exists", "uploading"))
            /\ faults' = faults \cup {"upload"}
            /\ uploadAttempts' = uploadAttempts + 1
            /\ UNCHANGED <<videoUrl, blobs, blobSeq, uploadedUrls>>
       ELSE /\ blobs' = blobs \cup {key}
            /\ blobSeq' = blobSeq + 1
            /\ uploadAttempts' = uploadAttempts + 1
            /\ uploadedUrls' = Append(uploadedUrls, key)
            /\ videoUrl' = Some(key)
            /\ pc' = "w_uploaded"
            /\ UNCHANGED <<caught, faults>>
    /\ UNCHANGED <<stream, frames, tasks, activeCount, queue, processedCount,
                   thrown, returned, delCalls>>
    /\ UNCHANGED aux

\* An execution of uploadVideoToBlob stores the video but does not complete
\* (its result is lost); the step is executed again with the same arguments.
UploadVideoRetried ==
    /\ pc = "uploading"
    /\ uploadAttempts + 1 < MaxUploadAttempts
    /\ LET key == VideoPutKey(blobSeq) IN
       /\ ~PutCollides(blobs, key)
       /\ blobs' = blobs \cup {key}
       /\ blobSeq' = blobSeq + 1
       /\ uploadedUrls' = Append(uploadedUrls, key)
    /\ uploadAttempts' = uploadAttempts + 1
    /\ UNCHANGED <<pc, stream, videoUrl, frames, tasks, activeCount, queue,
                   processedCount, caught, thrown, returned, delCalls, faults>>
    /\ UNCHANGED aux

\* uploadVideoToBlob throws without having stored anything.
UploadVideoThrows ==
    /\ pc = "uploading"
    /\ EnterCatch(Err("upload", "uploading"))
    /\ faults' = faults \cup {"upload"}
    /\ UNCHANGED <<stream, videoUrl, blobs, blobSeq, uploadAttempts, uploadedUrls,
                   frames, tasks, activeCount, queue, processedCount, thrown,
                   returned, delCalls>>
    /\ UNCHANGED aux

\* writeProgress(uploaded) wrote its line; extractFrames is called.
UploadedWritten ==
    /\ pc = "w_uploaded"
    /\ stream' = Append(stream, ProgressRec("uploaded", 20))
    /\ pc' = "extracting"
    /\ UNCHANGED <<videoUrl, blobs, blobSeq, uploadAttempts, uploadedUrls, frames,
                   tasks, activeCount, queue, processedCount, caught, thrown,
                   returned, delCalls, faults>>
    /\ UNCHANGED aux

\* extractFrames returns n frames; the extracted record is written next.
ExtractFramesReturns(n) ==
    /\ pc = "extracting"
    /\ frames' = ExtractedFrames(n)
    /\ pc' = "w_extracted"
    /\ UNCHANGED <<stream, videoUrl, blobs, blobSeq, uploadAttempts, uploadedUrls,
                   tasks, activeCount, queue, processedCount, caught, thrown,
                   returned, delCalls, faults>>
    /\ UNCHANGED aux

\* extractFrames throws (download, size check, ffmpeg, reading a frame).
ExtractFramesThrows ==
    /\ pc = "extracting"
    /\ EnterCatch(Err("extract", "extracting"))
    /\ faults' = faults \cup {"extract"}
    /\ UNCHANGED <<stream, videoUrl, blobs, blobSeq, uploadAttempts, uploadedUrls,
                   frames, tasks, activeCount, queue, processedCount, thrown,
                   returned, delCalls>>
    /\ UNCHANGED aux

\* writeProgress(extracted) wrote its line; every frame is handed to the
\* limiter and Promise.all is awaited. With no frame Promise.all resolves at
\* once and the cleanup record is written next.
ExtractedWritten ==
    /\ pc = "w_extracted"
    /\ stream' = Append(stream, ExtractedRec(NumFrames))
    /\ SetLimiter(SubmitAll([tasks |-> [i \in 1..NumFrames |-> NewTask],
                             queue |-> <<>>, active |-> 0], 1, NumFrames))
    /\ pc' = IF NumFrames = 0 THEN "w_cleanup" ELSE "analysing"
    /\ UNCHANGED <<videoUrl, blobs, blobSeq, uploadAttempts, uploadedUrls, frames,
                   processedCount, caught, thrown, returned, delCalls, faults>>
    /\ UNCHANGED aux

\* What the classification call of one frame may do: moderateContentSync
\* returns the rating of an analysis the model answered, or it throws or times
\* out and moderateFrame falls back (flagged: Math.random() < 0.2).
RatedOutcomes(as) == {[analysis |-> Some(a), flagged |-> FALSE, conf |-> 0] : a \in as}
ThrowOutcomes ==
    {[analysis |-> None, flagged |-> f, conf |-> IF f THEN c ELSE 0] :
        f \in BOOLEAN, c \in FallbackConfidences}
Outcomes(as) == RatedOutcomes(as) \cup ThrowOutcomes

\* moderateContentSync: return calculateRating(object)
Rated(o) == IF o.analysis # None THEN Some(calculateRating(o.analysis[1])) ELSE None

\* moderateFrame: try { moderateContentSync ... } catch { fallback }
ModerateFrame(o) ==
    IF o.analysis # None
    THEN ModerateFrameRated(calculateRating(o.analysis[1]))
    ELSE ModerateFrameFallback(o.flagged, o.conf)

\* ModerateFrameCatches with a fault seeded: the classification error is not caught.
ModerateFrameCatchesNothing == FALSE

\* moderateFrame wraps the classification call in try/catch
ModerateFrameCatches == TRUE

\* processOneFrame: the incident of a flagged frame
Incident(frame, m, url) ==
    [timestamp |-> frame.timestamp, confidence |-> m.confidence,
     screenshotUrl |-> url, rating |-> m.rating, analysis |-> m.analysis]

\* NeedsScreenshot with a fault seeded: only frames rated 18+ are taken.
NeedsScreenshotEighteenOnly(m) == m.rating = "18+"

\* if (moderationResult.isFlagged)
NeedsScreenshot(m) == m.isFlagged

\* The frame task of frame i after processOneFrame returned for outcome o
\* (url: the screenshot stored for a flagged frame): processedCount++ and the
\* frameProcessed record is handed to writeProgress.
TaskAnalysed(ts, i, o, url, count) ==
    LET m == ModerateFrame(o) IN
    [ts EXCEPT ![i].phase = "writing",
               ![i].rated = Rated(o),
               ![i].moderation = Some(m),
               ![i].incident = IF NeedsScreenshot(m)
                               THEN Some(Incident(frames[i], m, url))
                               ELSE None,
               ![i].rec = Some(FrameProcessedRec(count, NumFrames))]

\* TaskRejects with a fault seeded: the rejection of one task cancels the
\* frame tasks that are still running or waiting.
TaskRejectsCancelling(i, e) ==
    /\ tasks' = [j \in DOMAIN tasks |->
                    IF j = i \/ tasks[j].phase \in {"queued", "analysing", "writing"}
                    THEN [tasks[j] EXCEPT !.phase = "failed"] ELSE tasks[j]]
    /\ queue' = <<>>
    /\ activeCount' = 0
    /\ IF pc = "analysing"
       THEN EnterCatch(e)
       ELSE UNCHANGED <<pc, caught>>

\* A frame task rejects: its slot is freed, and the first rejection makes
\* Promise.all reject, which takes the workflow into its catch block.
TaskRejects(i, e) ==
    /\ SetLimiter(Release([Limiter EXCEPT !.tasks[i].phase = "failed"]))
    /\ IF pc = "analysing"
       THEN EnterCatch(e)
       ELSE UNCHANGED <<pc, caught>>

\* processOneFrame(frames[i]) returns: moderateFrame rated the frame (or fell
\* back), and a flagged frame had its screenshot stored.
FrameAnalysed(i, o) ==
    /\ i \in DOMAIN tasks
    /\ tasks[i].phase = "analysing"
    /\ IF o.analysis = None /\ ~ModerateFrameCatches
       THEN /\ TaskRejects(i, Err("classify", i))
            /\ UNCHANGED <<blobs, blobSeq, processedCount>>
       ELSE /\ LET key == ScreenshotPutKey(frames[i].filename, blobSeq) IN
               /\ tasks' = TaskAnalysed(tasks, i, o, key, processedCount + 1)
               /\ IF NeedsScreenshot(ModerateFrame(o))
                  THEN blobs' = blobs \cup {key} /\ blobSeq' = blobSeq + 1
                  ELSE UNCHANGED <<blobs, blobSeq>>
            /\ processedCount' = processedCount + 1
            /\ UNCHANGED <<pc, activeCount, queue, caught>>
    /\ faults' = IF o.analysis = None THEN faults \cup {"classify"} ELSE faults
    /\ UNCHANGED <<stream, videoUrl, uploadAttempts, uploadedUrls, frames,
                   thrown, returned, delCalls>>
    /\ UNCHANGED aux

\* ProcessOneFrameThrows with a fault seeded: the exception of the
\* screenshot upload is caught in the frame task, which resolves with null.
ProcessOneFrameAbsorbs(i, o) ==
    /\ i \in DOMAIN tasks
    /\ tasks[i].phase = "analysing"
    /\ NeedsScreenshot(ModerateFrame(o))
    /\ tasks' = [TaskAnalysed(tasks, i, o, ScreenshotPutKey(frames[i].filename, blobSeq),
                              processedCount + 1) EXCEPT ![i].incident = None]
    /\ processedCount' = processedCount + 1
    /\ faults' = faults \cup {"screenshot"}
                 \cup (IF o.analysis = None THEN {"classify"} ELSE {})
    /\ UNCHANGED <<pc, stream, videoUrl, blobs, blobSeq, uploadAttempts, uploadedUrls,
                   frames, activeCount, queue, caught, thrown, returned, delCalls>>
    /\ UNCHANGED aux

\* processOneFrame(frames[i]) throws: the frame is flagged and
\* uploadScreenshotToBlob throws.
ProcessOneFrameThrows(i, o) ==
    /\ i \in DOMAIN tasks
    /\ tasks[i].phase = "analysing"
    /\ NeedsScreenshot(ModerateFrame(o))
    /\ TaskRejects(i, Err("screenshot", i))
    /\ faults' = faults \cup {"screenshot"}
                 \cup (IF o.analysis = None THEN {"classify"} ELSE {})
    /\ UNCHANGED <<stream, videoUrl, blobs, blobSeq, uploadAttempts, uploadedUrls,
                   frames, processedCount, thrown, returned, delCalls>>
    /\ UNCHANGED aux

\* The frameProcessed write of frame i wrote its line: the task resolves with
\* its incident and frees its slot. When it was the last one, Promise.all
\* resolves and the cleanup record is written next.
FrameProgressWritten(i) ==
    /\ i \in DOMAIN tasks
    /\ tasks[i].phase = "writing"
    /\ stream' = Append(stream, tasks[i].rec[1])
    /\ LET st == Release([Limiter EXCEPT !.tasks[i].phase = "done",
                                         !.tasks[i].rec = None]) IN
       /\ SetLimiter(st)
       /\ pc' = IF pc = "analysing" /\ AllResolved(st.tasks)
                THEN "w_cleanup" ELSE pc
    /\ UNCHANGED <<videoUrl, blobs, blobSeq, uploadAttempts, uploadedUrls, frames,
                   processedCount, caught, thrown, returned, delCalls, faults>>
    /\ UNCHANGED aux

\* The frameProcessed write of frame i throws: the task rejects.
FrameProgressWriteFails(i) ==
    /\ i \in DOMAIN tasks
    /\ tasks[i].phase = "writing"
    /\ TaskRejects(i, Err("write", i))
    /\ faults' = faults \cup {"write"}
    /\ UNCHANGED <<stream, videoUrl, blobs, blobSeq, uploadAttempts, uploadedUrls,
                   frames, processedCount, thrown, returned, delCalls>>
    /\ UNCHANGED aux

\* writeProgress(cleanup) wrote its line; deleteVideoBlob(videoUrl) is called.
CleanupWritten ==
    /\ pc = "w_cleanup"
    /\ stream' = Append(stream, ProgressRec("cleanup", 95))
    /\ pc' = IF videoUrl # None THEN "deleting" ELSE "w_complete"
    /\ UNCHANGED <<videoUrl, blobs, blobSeq, uploadAttempts, uploadedUrls, frames,
                   tasks, activeCount, queue, processedCount, caught, thrown,
                   returned, delCalls, faults>>
    /\ UNCHANGED aux

\* DeleteSwallows with a fault seeded: the failure of del is thrown on.
DeleteSwallowsNothing == FALSE

\* deleteVideoBlob: try { await del(videoUrl) } catch (error) { log }
DeleteSwallows == TRUE

\* one deleteVideoBlob call: where it was made and whether del succeeded
DelCall(site, ok) == [site |-> site, ok |-> ok]

\* deleteVideoBlob: del(videoUrl) removes the object, or fails and the
\* failure is logged and swallowed. The step always returns.
DeleteBlob(ok) ==
    /\ blobs' = IF ok THEN blobs \ {videoUrl[1]} ELSE blobs
    /\ faults' = IF ok THEN faults ELSE faults \cup {"delete"}

\* deleteVideoBlob of the try block returned; the complete record is written next.
SourceDeleted(ok) ==
    /\ pc = "deleting"
    /\ DeleteBlob(ok)
    /\ delCalls' = Append(delCalls, DelCall("try", ok))
    /\ IF ok \/ DeleteSwallows
       THEN pc' = "w_complete" /\ UNCHANGED caught
       ELSE EnterCatch(Err("delete", "deleting"))
    /\ UNCHANGED <<stream, videoUrl, blobSeq, uploadAttempts, uploadedUrls, frames,
                   tasks, activeCount, queue, processedCount, thrown, returned>>
    /\ UNCHANGED aux

\* writeProgress(complete) wrote its line; the workflow returns the result.
CompleteWritten ==
    /\ pc = "w_complete"
    /\ stream' = Append(stream, CompleteRec(JobResult(tasks, NumFrames)))
    /\ returned' = Some(JobResult(tasks, NumFrames))
    /\ pc' = "returned"
    /\ UNCHANGED <<videoUrl, blobs, blobSeq, uploadAttempts, uploadedUrls, frames,
                   tasks, activeCount, queue, processedCount, caught, thrown,
                   delCalls, faults>>
    /\ UNCHANGED aux

\* The catch block: writeProgress(error) wrote its line; the uploaded video is
\* deleted when there is one, else the error is thrown again.
ErrorWritten ==
    /\ pc = "w_error"
    /\ stream' = Append(stream, ErrorRec(caught[1]))
    /\ IF videoUrl # None
       THEN pc' = "c_deleting" /\ UNCHANGED thrown
       ELSE pc' = "thrown" /\ thrown' = caught
    /\ UNCHANGED <<videoUrl, blobs, blobSeq, uploadAttempts, uploadedUrls, frames,
                   tasks, activeCount, queue, processedCount, caught, returned,
                   delCalls, faults>>
    /\ UNCHANGED aux

\* The catch block: writeProgress(error) throws, and its exception leaves the
\* catch block and the workflow.
ErrorWriteFails ==
    /\ pc = "w_error"
    /\ thrown' = Some(Err("write", "w_error"))
    /\ pc' = "thrown"
    /\ faults' = faults \cup {"write"}
    /\ UNCHANGED <<stream, videoUrl, blobs, blobSeq, uploadAttempts, uploadedUrls,
                   frames, tasks, activeCount, queue, processedCount, caught,
                   returned, delCalls>>
    /\ UNCHANGED aux

\* The catch block: deleteVideoBlob returned; throw error.
CatchDeleted(ok) ==
    /\ pc = "c_deleting"
    /\ DeleteBlob(ok)
    /\ delCalls' = Append(delCalls, DelCall("catch", ok))
    /\ thrown' = caught
    /\ pc' = "thrown"
    /\ UNCHANGED <<stream, videoUrl, blobSeq, uploadAttempts, uploadedUrls, frames,
                   tasks, activeCount, queue, processedCount, caught, returned>>
    /\ UNCHANGED aux

Next ==
    \/ StartedWritten
    \/ TryWriteFails
    \/ UploadVideoReturns
    \/ UploadVideoRetried
    \/ UploadVideoThrows
    \/ UploadedWritten
    \/ \E n \in 0..MaxFrames : ExtractFramesReturns(n)
    \/ ExtractFramesThrows
    \/ ExtractedWritten
    \/ \E i \in 1..MaxFrames, o \in Outcomes(answers) : FrameAnalysed(i, o)
    \/ \E i \in 1..MaxFrames, o \in Outcomes(answers) : ProcessOneFrameThrows(i, o)
    \/ \E i \in 1..MaxFrames : FrameProgressWritten(i)
    \/ \E i \in 1..MaxFrames : FrameProgressWriteFails(i)
    \/ CleanupWritten
    \/ \E ok \in BOOLEAN : SourceDeleted(ok)
    \/ CompleteWritten
    \/ ErrorWritten
    \/ ErrorWriteFails
    \/ \E ok \in BOOLEAN : CatchDeleted(ok)

Spec == Init /\ [][Next]_vars

\* ------------------------------------------- the analysis stage at scale

\* The classification that rates a frame safe.
AllClear == AnalysisWith([x \in {} |-> Undetected])

\* The workflow after extractFrames returned n frames: the started and
\* uploaded records are written, the video is stored, the extracted record
\* is being written.
AfterExtraction(n) ==
    /\ pc = "w_extracted"
    /\ stream = <<ProgressRec("started", 5), ProgressRec("uploaded", 20)>>
    /\ videoUrl = Some(VideoPutKey(0))
    /\ blobs = {VideoPutKey(0)}
    /\ blobSeq = 1
    /\ uploadAttempts = 1
    /\ uploadedUrls = <<VideoPutKey(0)>>
    /\ frames = ExtractedFrames(n)
    /\ tasks = <<>>
    /\ activeCount = 0
    /\ queue = <<>>
    /\ processedCount = 0
    /\ caught = None
    /\ thrown = None
    /\ returned = None
    /\ delCalls = <<>>
    /\ faults = {}

InitLimit ==
    /\ \E n \in 0..MaxLimitFrames : AfterExtraction(n)
    /\ answers = {AllClear}
    /\ ClientStart
    /\ WritersStart
    /\ ExtractionStart
    /\ PercentStart
    /\ StoreStart

\* processOneFrame(frames[i]) returns for a frame rated safe and the
\* frameProcessed write that follows it completes before any other step does.
FrameAnalysedAndWritten(i) ==
    /\ i \in DOMAIN tasks
    /\ tasks[i].phase = "analysing"
    /\ LET o  == [analysis |-> Some(AllClear), flagged |-> FALSE, conf |-> 0]
           ts == TaskAnalysed(tasks, i, o, ScreenshotPutKey(frames[i].filename, blobSeq),
                              processedCount + 1)
           st == Release([tasks |-> [ts EXCEPT ![i].phase = "done", ![i].rec = None],
                          queue |-> queue, active |-> activeCount])
       IN /\ stream' = Append(stream, ts[i].rec[1])
          /\ SetLimiter(st)
          /\ pc' = IF pc = "analysing" /\ AllResolved(st.tasks)
                   THEN "w_cleanup" ELSE pc
    /\ processedCount' = processedCount + 1
    /\ UNCHANGED <<videoUrl, blobs, blobSeq, uploadAttempts, uploadedUrls, frames,
                   caught, thrown, returned, delCalls, faults>>
    /\ UNCHANGED aux

NextLimit ==
    \/ ExtractedWritten
    \/ \E i \in 1..MaxLimitFrames : FrameAnalysedAndWritten(i)
    \/ CleanupWritten
    \/ \E ok \in BOOLEAN : SourceDeleted(ok)
    \/ CompleteWritten

\* The analysis stage with more frames than the limiter admits at once.
SpecLimit == InitLimit /\ [][NextLimit]_vars

\* ------------------------------------------------- rating of one frame

\* The sets of at most MaxVaried categories: those in which an analysis
\* departs from "not detected, confidence 1".
VariedCategories == {T \in SUBSET Categories : Cardinality(T) <= MaxVaried}

InitRating ==
    /\ AfterExtraction(1)
    /\ \E S \in VariedCategories : \E v \in [S -> Detections] :
          answers = {AnalysisWith(v)}
    /\ ClientStart
    /\ WritersStart
    /\ ExtractionStart
    /\ PercentStart
    /\ StoreStart

NextRating ==
    \/ ExtractedWritten
    \/ \E o \in RatedOutcomes(answers) : FrameAnalysed(1, o)
    \/ FrameProgressWritten(1)

\* A job of one frame whose classification is any bounded analysis.
SpecRating == InitRating /\ [][NextRating]_vars

\* ------------------------------------------ the client end of the stream

\* Texts an event may carry: a newline, a backslash followed by n, a
\* two-byte character, a quote.
SampleTexts == {<<NL>>, <<"\\", "n">>, <<EAcute>>, <<"\"">>}

\* writeProgress(writable, {type: "progress", step, percent})
ProgressEvent(step, percent) ==
    JObj(<<<<Str("type"), JStr(Str("progress"))>>,
           <<Str("step"), JStr(Str(step))>>,
           <<Str("percent"), JNum(percent)>>>>)

\* writeProgress(writable, {type: "frameProcessed", current, total, percent})
FrameProcessedEvent(count, total) ==
    JObj(<<<<Str("type"), JStr(Str("frameProcessed"))>>,
           <<Str("current"), JNum(count)>>,
           <<Str("total"), JNum(total)>>,
           <<Str("percent"), JNum(FramePercent(count, total))>>>>)

\* writeProgress(writable, {type: "complete", percent: 100, result})
CompleteEvent(n, name) ==
    JObj(<<<<Str("type"), JStr(Str("complete"))>>,
           <<Str("percent"), JNum(100)>>,
           <<Str("result"),
             JObj(<<<<Str("incidents"), JArr(<<>>)>>,
                    <<Str("totalFrames"), JNum(n)>>,
                    <<Str("processedAt"), JStr(<<"T">>)>>,
                    <<Str("metadata"),
                      JObj(<<<<Str("filename"), JStr(name)>>>>)>>>>)>>>>)

\* writeProgress(writable, {type: "error", message})
ErrorEvent(text) ==
    JObj(<<<<Str("type"), JStr(Str("error"))>>,
           <<Str("message"), JStr(text)>>>>)

ClientEvents ==
    {ProgressEvent("started", 5), FrameProcessedEvent(1, 2), CompleteEvent(2, <<"a">>)}
    \cup {ErrorEvent(t) : t \in SampleTexts}

\* writeProgress(writable, data): one line is appended to the stream
WriteProgress(data) ==
    /\ ~closed
    /\ Len(written) < MaxEvents
    /\ written' = Append(written, data)
    /\ wire' = wire \o Encode(Message(data))
    /\ UNCHANGED <<closed, buffer, pendingByte, dispatched, readerDone, ui>>
    /\ UNCHANGED <<wfVars, answers, writerVars, extractVars, percentVars, storeVars>>

\* the run ends and with it the readable of the response
StreamEnds ==
    /\ ~closed
    /\ closed' = TRUE
    /\ UNCHANGED <<written, wire, buffer, pendingByte, dispatched, readerDone, ui>>
    /\ UNCHANGED <<wfVars, answers, writerVars, extractVars, percentVars, storeVars>>

\* reader.read() resolves with the next n bytes, and the chunk is processed
ReadChunk(n) ==
    /\ ~readerDone
    /\ n \in 1..Len(wire)
    /\ \E after \in {ProcessChunk([ui |-> ui, dispatched |-> dispatched,
                                   buffer |-> buffer, pending |-> pendingByte],
                                  SubSeq(wire, 1, n))} :
          /\ ui' = after.ui
          /\ dispatched' = after.dispatched
          /\ buffer' = after.buffer
          /\ pendingByte' = after.pending
    /\ wire' = SubSeq(wire, n + 1, Len(wire))
    /\ UNCHANGED <<written, closed, readerDone>>
    /\ UNCHANGED <<wfVars, answers, writerVars, extractVars, percentVars, storeVars>>

\* reader.read() resolves with done: the loop is left
ReadDone ==
    /\ ~readerDone
    /\ closed
    /\ wire = <<>>
    /\ readerDone' = TRUE
    /\ UNCHANGED <<written, wire, closed, buffer, pendingByte, dispatched, ui>>
    /\ UNCHANGED <<wfVars, answers, writerVars, extractVars, percentVars, storeVars>>

NextClient ==
    \/ \E data \in ClientEvents : WriteProgress(data)
    \/ StreamEnds
    \/ \E n \in 1..Len(wire) : ReadChunk(n)
    \/ ReadDone

\* The dialog reading a stream of at most MaxEvents records, in chunks of
\* any sizes.
SpecClient == Init /\ [][NextClient]_vars

\* the bytes of the records written, and what the read loop makes of them
\* when they arrive as one chunk
WireOf(events) == Concat([k \in 1..Len(events) |-> Encode(Message(events[k]))])

StartState ==
    [ui |-> [uploadState |-> "uploading", progress |-> JNum(5),
             stages |-> ResetStages, uploadResult |-> Null,
             errorMessage |-> JStr(<<>>), saved |-> <<>>],
     dispatched |-> <<>>, buffer |-> <<>>, pending |-> None]

AsOneChunk(bytes) == ProcessChunk(StartState, bytes)

Received == SubSeq(WireOf(written), 1, Len(WireOf(written)) - Len(wire))

\* C6: whatever the chunks were, the read loop is where one chunk holding
\* all the bytes received so far would have put it (same records
\* dispatched in the same order, same dialog state, same text held back),
\* and once the stream has ended the records dispatched are the records
\* written, in order.
C6_ChunkingPreservesEvents ==
    /\ dispatched = AsOneChunk(Received).dispatched
    /\ ui = AsOneChunk(Received).ui
    /\ buffer = AsOneChunk(Received).buffer
    /\ (wire = <<>>) => (dispatched = written)
    /\ readerDone => (dispatched = AsOneChunk(WireOf(written)).dispatched)

\* Two records were written; the first is dispatched, and a chunk has ended
\* inside the second, between the two bytes of one character.
C6_Witness ==
    /\ Len(written) = 2
    /\ Len(dispatched) = 1
    /\ buffer # <<>>
    /\ pendingByte # None

\* ------------------------------------------------------ stream properties

\* the number of elements of sequence s for which Test holds
CountIf(s, Test(_)) == Cardinality({k \in 1..Len(s) : Test(s[k])})

IsErrorRec(r) == r.type = "error"
IsCompleteRec(r) == r.type = "complete"
IsCatchCall(c) == c.site = "catch"

\* the frame tasks whose processOneFrame call has started and not finished
InFlight == {i \in DOMAIN tasks : tasks[i].phase = "analysing"}

\* C1: every run writes exactly one terminal record (complete or error,
\* never both) and no record is written after it: at no time is a terminal
\* record followed by another record or are there two of them, and a workflow
\* that has returned or thrown has written one.
C1_OneTerminalRecordLast ==
    /\ CountIf(stream, IsTerminal) <= 1
    /\ \A k \in 1..Len(stream) : IsTerminal(stream[k]) => k = Len(stream)
    /\ Terminated => CountIf(stream, IsTerminal) = 1

\* C2: the number of processOneFrame calls that have started and not yet
\* finished never exceeds 10.
C2_AtMostTenInFlight == Cardinality(InFlight) <= 10

\* C2 witness: 10 analyses are in flight while a frame waits in the queue and
\* an earlier analysis has already finished.
C2_Witness ==
    /\ Cardinality(InFlight) = 10
    /\ queue # <<>>
    /\ \E i \in DOMAIN tasks : tasks[i].phase = "done"

\* C3: the percent of consecutive progress / frameProcessed records of the
\* stream never decreases.
C3_PercentNeverDecreases ==
    \A j, k \in 1..Len(stream) :
        (j < k /\ HasPercent(stream[j]) /\ HasPercent(stream[k]))
            => stream[j].percent <= stream[k].percent

\* C4: when the upload succeeded and a later operation of the try block
\* threw, the workflow has, by the time it ends, written exactly one error
\* record, called deleteVideoBlob from the catch block exactly once, and thrown
\* the exception it caught.
C4_ErrorThenCleanupThenRethrow ==
    (pc = "thrown" /\ videoUrl # None)
        => /\ CountIf(stream, IsErrorRec) = 1
           /\ CountIf(delCalls, IsCatchCall) = 1
           /\ thrown = caught

\* the frames whose classification call threw or timed out
FellBack == {i \in DOMAIN tasks : tasks[i].moderation # None
                                   /\ tasks[i].moderation[1].fallback}
\* the frames moderateFrame flagged
Flagged == {i \in DOMAIN tasks : tasks[i].moderation # None
                                  /\ tasks[i].moderation[1].isFlagged}

SeqToSet(q) == {q[k] : k \in 1..Len(q)}

\* C5: a classification call that throws or times out does not abort the job:
\* a run in which no step other than classification calls (and the swallowed
\* blob deletion) failed ends by returning, its last record is the complete
\* record, totalFrames is the number of extracted frames and the incidents
\* hold the incident of every flagged frame.
C5_ClassificationFailureIsolated ==
    (Terminated /\ faults \subseteq {"classify", "delete"})
        => /\ pc = "returned"
           /\ stream # <<>>
           /\ IsCompleteRec(stream[Len(stream)])
           /\ stream[Len(stream)].result.totalFrames = NumFrames
           /\ \A i \in Flagged :
                 tasks[i].incident # None
                 /\ tasks[i].incident[1]
                        \in SeqToSet(stream[Len(stream)].result.incidents)

\* C5 witness: a job of two frames has returned; the classification of one
\* frame threw, the other frame is flagged by a real classification.
C5_Witness ==
    /\ pc = "returned"
    /\ NumFrames >= 2
    /\ \E i \in FellBack : \E j \in Flagged \ FellBack : i # j

\* C9: executing uploadVideoToBlob again with the same arguments never fails
\* with a name collision and never overwrites: the urls of all executions
\* differ, and until something is deleted storage holds one object per
\* execution.
C9_UploadTwiceNeverCollides ==
    /\ caught # None => caught[1].kind # "blob already exists"
    /\ \A j, k \in 1..Len(uploadedUrls) : j # k => uploadedUrls[j] # uploadedUrls[k]
    /\ delCalls = <<>> =>
          /\ SeqToSet(uploadedUrls) \subseteq blobs
          /\ Cardinality({b \in blobs : b.name = <<"video">>}) = uploadAttempts

\* C9 witness: the upload step ran twice and the workflow holds the second url.
C9_Witness ==
    /\ Len(uploadedUrls) = 2
    /\ uploadAttempts = 2
    /\ videoUrl = Some(uploadedUrls[2])
    /\ pc = "w_uploaded"

\* C10: the frame at index i (from 0) has timestamp 5 * i, the frames are in
\* strictly increasing timestamp order, and every incident of the job result
\* has a timestamp that is a multiple of 5 in [0, 5 * totalFrames).
C10_TimestampsFollowIndex ==
    /\ \A i \in 1..NumFrames : frames[i].timestamp = 5 * (i - 1)
    /\ \A i, j \in 1..NumFrames : i < j => frames[i].timestamp < frames[j].timestamp
    /\ returned # None =>
          \A inc \in SeqToSet(returned[1].incidents) :
              /\ inc.timestamp % 5 = 0
              /\ 0 <= inc.timestamp
              /\ inc.timestamp < 5 * returned[1].totalFrames

\* C10 witness: a returned job whose last frame gave an incident.
C10_Witness ==
    /\ returned # None
    /\ NumFrames >= 2
    /\ \E inc \in SeqToSet(returned[1].incidents) :
          inc.timestamp = 5 * (NumFrames - 1)

\* the frames for which moderateContentSync returned a rating
RatedFrames == {i \in DOMAIN tasks : tasks[i].rated # None}

\* in analysis a some category of the tier has confidence >= 3
ConfidentIn(a, tier) == \E c \in tier : a[c].confidence >= 3
\* in analysis a some category of the tier is detected with confidence >= 3
DetectedIn(a, tier) == \E c \in tier : a[c].detected /\ a[c].confidence >= 3

\* C7 as stated: calculateRating returns 18+ if any eighteenPlus category has
\* confidence >= 3, otherwise 16+ if any sixteenPlus category has confidence
\* >= 3, otherwise safe.
C7_RatingByConfidence ==
    \A i \in RatedFrames :
        LET r == tasks[i].rated[1] IN
        r.rating = IF ConfidentIn(r.analysis, EighteenPlus) THEN "18+"
                   ELSE IF ConfidentIn(r.analysis, SixteenPlus) THEN "16+"
                   ELSE "safe"

\* C7 amended: calculateRating returns 18+ if any eighteenPlus category is
\* detected with confidence >= 3, otherwise 16+ if any sixteenPlus category is
\* detected with confidence >= 3, otherwise safe.
C7_RatingByDetectedConfidence ==
    \A i \in RatedFrames :
        LET r == tasks[i].rated[1] IN
        r.rating = IF DetectedIn(r.analysis, EighteenPlus) THEN "18+"
                   ELSE IF DetectedIn(r.analysis, SixteenPlus) THEN "16+"
                   ELSE "safe"

\* C7 witness: a frame is rated 16+ although an eighteenPlus category has
\* confidence >= 3, because that category is not detected.
C7_Witness ==
    \E i \in RatedFrames :
        LET r == tasks[i].rated[1] IN
        /\ r.rating = "16+"
        /\ ConfidentIn(r.analysis, EighteenPlus)

\* in analysis a category c is detected with confidence conf and no other
\* category is detected
OnlyDetected(a, c, conf) ==
    /\ a[c] = Detection(TRUE, conf)
    /\ \A d \in Categories \ {c} : ~a[d].detected

\* C8: a frame for which exactly one 18+ category is detected, with confidence
\* 3, is rated 18+, is flagged and yields an incident; with confidence 2 it is
\* rated safe, is not flagged and yields no incident.
C8_ThresholdAtThree ==
    \A i \in RatedFrames : \A c \in EighteenPlus :
        LET a == tasks[i].rated[1].analysis
            m == tasks[i].moderation[1]
        IN /\ OnlyDetected(a, c, 3) =>
                 /\ m.rating = "18+"
                 /\ m.isFlagged
                 /\ tasks[i].incident # None
                 /\ tasks[i].incident[1].rating = "18+"
           /\ OnlyDetected(a, c, 2) =>
                 /\ m.rating = "safe"
                 /\ ~m.isFlagged
                 /\ tasks[i].incident = None

\* C8 witness: processOneFrame returned an incident for a frame in which one
\* 18+ category is detected with confidence 3 and another category is not
\* detected with confidence 5.
C8_Witness ==
    \E i \in RatedFrames : \E c \in EighteenPlus :
        LET a == tasks[i].rated[1].analysis IN
        /\ OnlyDetected(a, c, 3)
        /\ \E d \in Categories \ {c} : a[d].confidence = 5
        /\ tasks[i].incident # None

\* ------------------------------------------------- end of the stream

\* a complete record has been dispatched
CompleteDispatched == \E k \in 1..Len(dispatched) : IsType(dispatched[k], "complete")

\* C11: when the reader has reported done and no complete record was
\* dispatched, the dialog is in the error state; it is not left in the
\* uploading or processing state.
C11_SilentEndIsError ==
    (readerDone /\ ~CompleteDispatched) => ui.uploadState = "error"

\* --------------------------------------------------- failed deletions

\* the deleteVideoBlob calls in which del failed
FailedDeletes == {k \in 1..Len(delCalls) : ~delCalls[k].ok}

\* C12: a failure of del inside deleteVideoBlob is swallowed. It never
\* reaches the catch block; a run in which nothing but deletions failed ends
\* by returning its result, with the complete record written last; and when
\* the deletion of the catch block failed, the exception thrown by the
\* workflow is the one it caught.
C12_DeletionFailureSwallowed ==
    /\ caught # None => caught[1].kind # "delete"
    /\ thrown # None => thrown[1].kind # "delete"
    /\ (Terminated /\ faults = {"delete"}) =>
          /\ pc = "returned"
          /\ returned # None
          /\ stream # <<>>
          /\ stream[Len(stream)] = CompleteRec(returned[1])
    /\ (pc = "thrown" /\ \E k \in FailedDeletes : delCalls[k].site = "catch") =>
          thrown = caught

\* C12 witness: the job has returned although the deletion of the try block
\* failed; the video is still in storage.
C12_Witness ==
    /\ pc = "returned"
    /\ delCalls = <<DelCall("try", FALSE)>>
    /\ videoUrl[1] \in blobs

\* ----------------------------------------------- failed stream writes

\* the try block got as far as its deleteVideoBlob call (and so to the
\* complete write)
ReachedComplete == \E k \in 1..Len(delCalls) : delCalls[k].site = "try"

\* the catch block was entered by a writeProgress call that threw while
\* writing a progress or frameProcessed record
ProgressWriteAborted ==
    /\ caught # None
    /\ caught[1].kind = "write"
    /\ ~ReachedComplete

\* C13: a writeProgress call that throws while writing a progress or
\* frameProcessed record does not abort the job: such a failure never takes
\* the workflow into its catch block.
C13_StreamWriteFailureDoesNotAbort == ~ProgressWriteAborted

\* ------------------------------------------------ order of the incidents

\* an incident without the url storage gave its screenshot
WithoutUrl(inc) ==
    [timestamp |-> inc.timestamp, confidence |-> inc.confidence,
     rating |-> inc.rating, analysis |-> inc.analysis]

\* what frame i contributes to the incidents, from its moderation result alone
IncidentOfFrame(i) ==
    LET m == tasks[i].moderation[1]
    IN IF m.isFlagged
       THEN <<[timestamp |-> frames[i].timestamp, confidence |-> m.confidence,
               rating |-> m.rating, analysis |-> m.analysis]>>
       ELSE <<>>

\* C14: the incidents of the result (and of the complete record) are in
\* strictly ascending timestamp order, and they are the incidents of the
\* flagged frames taken in frame order: a list fixed by the frames and
\* their classifications, whatever the order in which the analyses finished.
C14_IncidentsInFrameOrder ==
    returned # None =>
        LET incs == returned[1].incidents IN
        /\ \A j, k \in 1..Len(incs) : j < k => incs[j].timestamp < incs[k].timestamp
        /\ [k \in 1..Len(incs) |-> WithoutUrl(incs[k])]
              = Concat([i \in 1..NumFrames |-> IncidentOfFrame(i)])
        /\ stream[Len(stream)].result.incidents = incs

\* C14 witness: a job has returned two incidents, and the analysis of the
\* later frame finished (stored its screenshot) before that of the earlier.
C14_Witness ==
    /\ returned # None
    /\ Len(returned[1].incidents) >= 2
    /\ returned[1].incidents[1].screenshotUrl.suffix
          > returned[1].incidents[2].screenshotUrl.suffix

\* the position, in order of completion, of the analysis that gave incident
\* inc: storage gave its screenshot the suffix current at that moment
CompletionRank(inc) == inc.screenshotUrl.suffix

\* C15 as stated: the incidents of the job result are ordered by completion,
\* an incident whose analysis completed earlier comes before one whose
\* analysis completed later.
C15_IncidentsByCompletion ==
    returned # None =>
        \A j, k \in 1..Len(returned[1].incidents) :
            CompletionRank(returned[1].incidents[j])
                < CompletionRank(returned[1].incidents[k]) => j < k

\* C15 amended: the incidents of the job result are ordered by frame, not by
\* completion: the incident of an earlier frame comes before that of a later
\* frame, also when its analysis completed later.
C15_IncidentsByFrame ==
    returned # None =>
        \A j, k \in 1..Len(returned[1].incidents) :
            returned[1].incidents[j].timestamp
                < returned[1].incidents[k].timestamp => j < k

\* C15 witness: in a returned job both frames gave an incident, frame 1
\* completed after frame 2, and its incident is the first of the result.
C15_Witness ==
    /\ pc = "returned"
    /\ NumFrames = 2
    /\ tasks[1].incident # None
    /\ tasks[2].incident # None
    /\ CompletionRank(tasks[1].incident[1]) > CompletionRank(tasks[2].incident[1])
    /\ returned[1].incidents[1] = tasks[1].incident[1]

\* ------------------------------------------------- order of the records

IsFrameProcessedRec(r) == r.type = "frameProcessed"

\* C16: the records are in the stream in the order in which writeProgress
\* was called. The frame tasks call it with current = 1, 2, 3, ... in that
\* order, so the current values of the frameProcessed records of the stream
\* increase.
C16_StreamInInvocationOrder ==
    \A j, k \in 1..Len(stream) :
        (j < k /\ IsFrameProcessedRec(stream[j]) /\ IsFrameProcessedRec(stream[k]))
            => stream[j].current < stream[k].current

\* --------------------------------------- writeProgress, side by side

\* What a frame task hands to writeProgress: its frameProcessed record, or
\* a record whose text holds a newline.
WriterEvents(c) == {FrameProcessedEvent(c, MaxWriters), ErrorEvent(<<NL>>)}

\* Chunks with a fault seeded: the JSON text and the newline are written
\* separately.
ChunksLineThenNewline(data) == <<Encode(Stringify(data)), Encode(<<NL>>)>>

\* const message = JSON.stringify(data) + "\n"; encoder.encode(message): the
\* chunks one call hands to writer.write
Chunks(data) == <<Encode(Message(data))>>

\* finally with a fault seeded: the lock is kept when the write throws
ReleasedOnThrowNever == FALSE

\* try { ... } finally { writer.releaseLock() }: the lock is released also
\* when the write throws
ReleasedOnThrow == TRUE

\* writeProgress is entered: writable.getWriter() locks the handle of this
\* step execution, the line is encoded and writer.write is issued
WriteProgressCalled(c, data) ==
    /\ calls[c].phase = "idle"
    /\ calls' = [calls EXCEPT ![c] =
                    IF calls[c].locked
                    THEN [@ EXCEPT !.phase = "lockError", !.data = data]
                    ELSE [@ EXCEPT !.phase = "writing", !.data = data,
                                   !.pending = Chunks(data), !.locked = TRUE]]
    /\ UNCHANGED <<channel, wfVars, answers, clientVars, extractVars, percentVars, storeVars>>

\* await writer.write(...) resolves: the chunk has reached the stream whole;
\* after the last chunk, finally releases the lock and the call returns
WriteResolves(c) ==
    /\ calls[c].phase = "writing"
    /\ channel' = channel \o Head(calls[c].pending)
    /\ calls' = [calls EXCEPT ![c] =
                    IF Len(calls[c].pending) = 1
                    THEN [@ EXCEPT !.phase = "returned", !.pending = <<>>,
                                   !.attempts = @ + 1, !.locked = FALSE]
                    ELSE [@ EXCEPT !.pending = Tail(@), !.attempts = @ + 1]]
    /\ UNCHANGED <<wfVars, answers, clientVars, extractVars, percentVars, storeVars>>

\* await writer.write(...) rejects: nothing reaches the stream, finally runs
\* and the call throws
WriteRejects(c) ==
    /\ calls[c].phase = "writing"
    /\ calls' = [calls EXCEPT ![c] =
                    [@ EXCEPT !.phase = "threw", !.attempts = @ + 1,
                              !.locked = ~ReleasedOnThrow]]
    /\ UNCHANGED <<channel, wfVars, answers, clientVars, extractVars, percentVars, storeVars>>

NextWriters ==
    \/ \E c \in 1..MaxWriters : \E data \in WriterEvents(c) :
          WriteProgressCalled(c, data)
    \/ \E c \in 1..MaxWriters : WriteResolves(c)
    \/ \E c \in 1..MaxWriters : WriteRejects(c)

\* MaxWriters frame tasks calling writeProgress on the stream side by side.
SpecWriters == Init /\ [][NextWriters]_vars

\* the calls whose line has reached the stream
Landed == {c \in 1..MaxWriters : calls[c].phase = "returned"}

\* the lines the stream holds and what follows the last newline
ChannelLines == Split(Decode(None, channel).text)

\* C17: with several writeProgress calls in flight on the stream, the
\* stream content is at all times a concatenation of whole
\* newline-terminated JSON lines: nothing follows the last newline, there
\* is one line per call whose write has resolved, and every line parses to
\* the record of one of these calls.
C17_WholeLinesOnly ==
    LET segs == ChannelLines
    IN /\ segs[Len(segs)] = <<>>
       /\ Len(segs) - 1 = Cardinality(Landed)
       /\ \A k \in 1..(Len(segs) - 1) :
             \E c \in Landed : JSONparse(segs[k]) = Some(calls[c].data)

\* calls in flight together: the lines of two calls have landed while the
\* write of another call is still pending, and one of the lines holds an
\* escaped newline
C17_Witness ==
    /\ calls[1].phase = "writing"
    /\ Landed = {2, 3}
    /\ calls[2].data = ErrorEvent(<<NL>>)
    /\ Len(ChannelLines) = 3

\* the calls that have ended, by returning or by throwing
Ended == {c \in 1..MaxWriters : calls[c].phase \in {"returned", "threw"}}

Settles(i) ==
    /\ i \in DOMAIN tasks
    /\ tasks[i].phase = "analysing"
    /\ tasks'[i].phase = "done"

\* the frame tasks in a phase
InPhase(phase) == {i \in DOMAIN tasks : tasks[i].phase = phase}

FrameProcessedAt == {k \in 1..Len(stream) : IsFrameProcessedRec(stream[k])}

\* C20: on a run that returns its result (nothing has thrown up to the
\* workflow), with N frames extracted exactly N frameProcessed records are
\* in the stream, their current values are exactly 1..N without duplicate
\* or gap, each carries total = N, and the result's totalFrames is N; for
\* N = 0 there is no frameProcessed record and the complete record carries
\* totalFrames 0 and no incidents.
C20_OneFrameProcessedPerFrame ==
    returned # None =>
        /\ Cardinality(FrameProcessedAt) = NumFrames
        /\ {stream[k].current : k \in FrameProcessedAt} = 1..NumFrames
        /\ \A k \in FrameProcessedAt : stream[k].total = NumFrames
        /\ returned[1].totalFrames = NumFrames
        /\ NumFrames = 0 =>
              /\ returned[1].incidents = <<>>
              /\ stream[Len(stream)] = CompleteRec([incidents |-> <<>>,
                                                    totalFrames |-> 0])

\* a run of MaxFrames frames in which nothing threw has returned, and the
\* frameProcessed record written last is not the one with the largest count
C20_Witness ==
    /\ pc = "returned"
    /\ faults = {}
    /\ NumFrames = MaxFrames
    /\ \E j, k \in FrameProcessedAt : j < k /\ stream[j].current > stream[k].current

\* ------------------------------------------------- incidents and screenshots

\* the frames whose processOneFrame call has returned
Processed == {i \in DOMAIN tasks : tasks[i].moderation # None}

\* the frames whose processOneFrame call returned an incident
WithIncident == {i \in DOMAIN tasks : tasks[i].incident # None}

\* the screenshots in blob storage
Screenshots == {b \in blobs : b.name[1] = "screenshots"}

\* C21: a processOneFrame call that returns has stored a screenshot and
\* returns an incident exactly when the frame is rated 16+ or 18+; for a
\* frame rated safe no screenshot is stored and null is returned; and the
\* incidents of the result are exactly the non-null frame results.
C21_IncidentIffRated ==
    /\ \A i \in Processed :
          /\ tasks[i].incident # None
                <=> tasks[i].moderation[1].rating \in {"16+", "18+"}
          /\ tasks[i].rated # None =>
                tasks[i].moderation[1].rating = tasks[i].rated[1].rating
          /\ tasks[i].incident # None =>
                /\ tasks[i].incident[1].screenshotUrl \in Screenshots
                /\ tasks[i].incident[1].screenshotUrl.name[2] = frames[i].filename
                /\ tasks[i].incident[1].rating = tasks[i].moderation[1].rating
    /\ WithIncident \subseteq Processed
    /\ Screenshots = {tasks[i].incident[1].screenshotUrl : i \in WithIncident}
    /\ Cardinality(Screenshots) = Cardinality(WithIncident)
    /\ returned # None =>
          /\ Len(returned[1].incidents) = Cardinality(WithIncident)
          /\ {returned[1].incidents[k] : k \in 1..Len(returned[1].incidents)}
                = {tasks[i].incident[1] : i \in WithIncident}

\* a run has returned in which one frame was rated 16+ by the model and is
\* an incident with its screenshot stored, and the other was rated safe
C21_Witness ==
    /\ pc = "returned"
    /\ NumFrames = 2
    /\ tasks[1].rated # None /\ tasks[1].rated[1].rating = "safe"
    /\ tasks[2].rated # None /\ tasks[2].rated[1].rating = "16+"
    /\ Len(returned[1].incidents) = 1
    /\ Cardinality(Screenshots) = 1

\* ------------------------------------------------- inside extractFrames

\* an exception is thrown inside the try block of extractFrames:
\* catch (error) { console.error(...); throw error }
ExtractThrows(x, kind) == [x EXCEPT !.pc = "threw", !.error = Some(kind)]

\* SizeMismatch with a fault seeded: the size of the file is not compared.
SizeMismatchIgnored(size, expected) == FALSE

\* if (stats.size !== videoBuffer.length)
SizeMismatch(size, expected) == size # expected

\* what an action of extractFrames leaves alone
OutsideExtraction ==
    <<wfVars, answers, clientVars, writerVars, percentVars, storeVars>>

\* the workflow calls extractFrames(videoUrl, filename): fetch(videoUrl)
ExtractCalled ==
    /\ pc = "extracting"
    /\ extraction.pc = "idle"
    /\ extraction' = [extraction EXCEPT !.pc = "fetching", !.fetches = @ + 1]
    /\ UNCHANGED OutsideExtraction

\* fetch settles: it rejects or the response is not ok (the function throws),
\* or the body is read into videoBuffer
FetchSettles(ok) ==
    /\ extraction.pc = "fetching"
    /\ extraction' = IF ok
                     THEN [extraction EXCEPT !.pc = "writing", !.fetched = VideoBytes]
                     ELSE ExtractThrows(extraction, "download")
    /\ UNCHANGED OutsideExtraction

\* writeFile(videoPath, videoBuffer) returns with size bytes on disk
WriteFileReturns(size) ==
    /\ extraction.pc = "writing"
    /\ size \in 0..extraction.fetched
    /\ extraction' = [extraction EXCEPT !.pc = "checking", !.videoFile = TRUE,
                                        !.written = Some(size)]
    /\ UNCHANGED OutsideExtraction

\* stat(videoPath) and the size check; mkdir -p framesDir follows
SizeChecked ==
    /\ extraction.pc = "checking"
    /\ extraction' = IF SizeMismatch(extraction.written[1], extraction.fetched)
                     THEN ExtractThrows(extraction, "integrity")
                     ELSE [extraction EXCEPT !.pc = "ffmpeg", !.framesDir = TRUE]
    /\ UNCHANGED OutsideExtraction

\* ffmpeg -i videoPath -vf fps=1/5 ... writes n frame files and exits; when
\* it fails the files it has written stay where they are
FfmpegExits(n, ok) ==
    /\ extraction.pc = "ffmpeg"
    /\ extraction' = IF ok
                     THEN [extraction EXCEPT !.pc = "reading", !.frameFiles = 1..n,
                                             !.ffmpegCalls = @ + 1]
                     ELSE [ExtractThrows(extraction, "decoder")
                             EXCEPT !.frameFiles = 1..n, !.ffmpegCalls = @ + 1]
    /\ UNCHANGED OutsideExtraction

\* frameFiles.map(async ...): readFile(framePath) and unlink(framePath) of
\* one frame; a failed read rejects Promise.all, and the reads of the other
\* frames go on
FrameFileRead(i, ok) ==
    /\ \/ extraction.pc = "reading"
       \/ extraction.pc = "threw" /\ extraction.error = Some("read")
    /\ i \in extraction.frameFiles
    /\ ok \/ extraction.pc = "reading"
    /\ extraction' = IF ok
                     THEN [extraction EXCEPT !.frameFiles = @ \ {i},
                                             !.read = @ \cup {i}]
                     ELSE ExtractThrows(extraction, "read")
    /\ UNCHANGED OutsideExtraction

\* every frame is read: unlink(videoPath) removes the video file, or fails
VideoUnlinked(ok) ==
    /\ extraction.pc = "reading"
    /\ extraction.frameFiles = {}
    /\ extraction' = IF ok
                     THEN [extraction EXCEPT !.pc = "rmdir", !.videoFile = FALSE]
                     ELSE ExtractThrows(extraction, "unlink")
    /\ UNCHANGED OutsideExtraction

\* rmdir framesDir removes the directory and the frames are returned, or
\* it fails
DirRemoved(ok) ==
    /\ extraction.pc = "rmdir"
    /\ extraction' = IF ok
                     THEN [extraction EXCEPT !.pc = "returned", !.framesDir = FALSE]
                     ELSE ExtractThrows(extraction, "rmdir")
    /\ UNCHANGED OutsideExtraction

\* the step resolves in the workflow with the frames read
ExtractionDelivered ==
    /\ extraction.pc = "returned"
    /\ ExtractFramesReturns(Cardinality(extraction.read))

\* the step rejects in the workflow
ExtractionFailed ==
    /\ extraction.pc = "threw"
    /\ ExtractFramesThrows

NextExtract ==
    \/ StartedWritten
    \/ UploadVideoReturns
    \/ UploadedWritten
    \/ ExtractCalled
    \/ \E ok \in BOOLEAN : FetchSettles(ok)
    \/ \E size \in 0..VideoBytes : WriteFileReturns(size)
    \/ SizeChecked
    \/ \E n \in 0..MaxFrames, ok \in BOOLEAN : FfmpegExits(n, ok)
    \/ \E i \in 1..MaxFrames, ok \in BOOLEAN : FrameFileRead(i, ok)
    \/ \E ok \in BOOLEAN : VideoUnlinked(ok)
    \/ \E ok \in BOOLEAN : DirRemoved(ok)
    \/ ExtractionDelivered
    \/ ExtractionFailed
    \/ ExtractedWritten
    \/ ErrorWritten
    \/ ErrorWriteFails
    \/ \E ok \in BOOLEAN : CatchDeleted(ok)

\* One execution of extractFrames, step by step, inside the workflow.
SpecExtract == Init /\ [][NextExtract]_vars

\* extractFrames has been left, by return or by throw
ExtractionEnded == extraction.pc \in {"returned", "threw"}

\* C22: extractFrames deletes the downloaded video file and the frames
\* directory on every exit: whenever it has returned or thrown, neither the
\* local video file nor the frames directory nor a frame file is left.
C22_LocalFilesDeletedOnEveryExit ==
    ExtractionEnded =>
        /\ ~extraction.videoFile
        /\ ~extraction.framesDir
        /\ extraction.frameFiles = {}

\* the download failed, or the file on disk has not the size fetched
DownloadUnusable ==
    \/ extraction.error = Some("download")
    \/ extraction.written # None /\ extraction.written[1] # extraction.fetched

\* C23: when the download fails or the size of the file written differs
\* from the number of bytes fetched, extractFrames throws before ffmpeg is
\* invoked and without fetching again; the workflow then runs no later
\* stage and ends by throwing, with the error record written last (unless
\* the write of that record fails itself).
C23_BadDownloadAbortsBeforeDecoder ==
    DownloadUnusable =>
        /\ extraction.pc \in {"checking", "threw"}
        /\ extraction.ffmpegCalls = 0
        /\ extraction.fetches = 1
        /\ ~extraction.framesDir
        /\ pc \in {"extracting", "w_error", "c_deleting", "thrown"}
        /\ frames = <<>> /\ tasks = <<>> /\ returned = None
        /\ (pc \in {"c_deleting", "thrown"} /\ "write" \notin faults) =>
              /\ stream # <<>>
              /\ stream[Len(stream)] = ErrorRec(caught[1])
              /\ caught[1].kind = "extract"

\* the file written was shorter than the download, extractFrames threw and
\* the workflow has ended by throwing after writing the error record
C23_Witness ==
    /\ pc = "thrown"
    /\ extraction.error = Some("integrity")
    /\ extraction.written = Some(VideoBytes - 1)
    /\ IsErrorRec(stream[Len(stream)])
    /\ thrown = caught

\* ----------------------------------------------------- steps and callers

\* the functions of video-storage.ts whose body begins with "use step"
UseStep ==
    {"writeProgress", "processOneFrame", "uploadVideoToBlob", "extractFrames",
     "moderateFrame", "uploadScreenshotToBlob", "deleteVideoBlob"}

\* the functions of the repository a function calls
Callees(f) ==
    CASE f = "processVideoUpload" ->
            {"writeProgress", "uploadVideoToBlob", "extractFrames",
             "processOneFrame", "deleteVideoBlob"}
      [] f = "processOneFrame" -> {"moderateFrame", "uploadScreenshotToBlob"}
      [] f = "moderateFrame" -> {"moderateContentSync"}
      [] OTHER -> {}

\* the step the workflow function is awaiting outside the frame tasks
AwaitedStep ==
    CASE pc \in TryWrites \cup {"w_error"} -> {"writeProgress"}
      [] pc = "uploading" -> {"uploadVideoToBlob"}
      [] pc = "extracting" -> {"extractFrames"}
      [] pc \in {"deleting", "c_deleting"} -> {"deleteVideoBlob"}
      [] OTHER -> {}

\* the calls in progress, as <<caller, callee>>: those of the workflow
\* function, and those of the frame tasks: a task that is analysing is inside
\* processOneFrame, which calls moderateFrame and then, for a flagged frame,
\* uploadScreenshotToBlob; a task that is writing is inside writeProgress
LiveCalls ==
    {<<"processVideoUpload", s>> : s \in AwaitedStep}
    \cup {<<"processVideoUpload", "processOneFrame">> : i \in InPhase("analysing")}
    \cup {<<"processOneFrame", g>> :
             g \in IF InPhase("analysing") # {}
                   THEN Callees("processOneFrame") ELSE {}}
    \cup {<<"processVideoUpload", "writeProgress">> : i \in InPhase("writing")}

\* C24: no function marked as a step invokes another function marked as a
\* step: every call in progress whose callee is a step is made by the
\* workflow function processVideoUpload.
C24_StepsCalledOnlyFromWorkflow ==
    \A call \in LiveCalls :
        call[2] \in UseStep => call[1] = "processVideoUpload"

\* ------------------------------------------------- the order of the stages

\* the record at position k of the stream is the progress record of a step
IsStepRec(k, step, percent) ==
    /\ k \in 1..Len(stream)
    /\ stream[k].type = "progress"
    /\ stream[k].step = step
    /\ stream[k].percent = percent

\* the cleanup record has been written
CleanupRecorded == \E k \in 1..Len(stream) : IsStepRec(k, "cleanup", 95)

\* C25: the stages run strictly in sequence. A run that returns has written
\* started (5), uploaded (20), extracted (40), the N frameProcessed records,
\* cleanup (95) and complete (100) in this order and nothing else; frames are
\* extracted only after the upload has returned and the uploaded record is
\* written; frame tasks exist only after the extracted record; and the
\* cleanup record, the deletion of the source and the complete record come
\* only when every frame task has resolved, its progress write included.
C25_StagesInSequence ==
    /\ returned # None =>
          /\ Len(stream) = NumFrames + 5
          /\ IsStepRec(1, "started", 5)
          /\ IsStepRec(2, "uploaded", 20)
          /\ IsStepRec(3, "extracted", 40)
          /\ \A k \in 4..(NumFrames + 3) : IsFrameProcessedRec(stream[k])
          /\ IsStepRec(NumFrames + 4, "cleanup", 95)
          /\ stream[NumFrames + 5] = CompleteRec(returned[1])
          /\ stream[NumFrames + 5].percent = 100
    /\ (frames # <<>> \/ pc = "w_extracted") =>
          videoUrl # None /\ IsStepRec(2, "uploaded", 20)
    /\ tasks # <<>> => IsStepRec(3, "extracted", 40) /\ Len(tasks) = NumFrames
    /\ (CleanupRecorded \/ ReachedComplete \/ pc \in {"w_cleanup", "w_complete"}) =>
          /\ \A i \in DOMAIN tasks : tasks[i].phase = "done"
          /\ Cardinality(FrameProcessedAt) = NumFrames
          /\ Len(tasks) = NumFrames
    /\ ReachedComplete => CleanupRecorded

\* a run of MaxFrames frames in which nothing threw has returned
C25_Witness ==
    /\ pc = "returned"
    /\ faults = {}
    /\ NumFrames = MaxFrames
    /\ Len(stream) = MaxFrames + 5
    /\ delCalls = <<DelCall("try", TRUE)>>

\* ------------------------------------------- a stream that ends mid-line

\* the records written in SpecCut
CutEvents == {ProgressEvent("uploaded", 20), ErrorEvent(<<EAcute>>)}

\* the response ends while bytes written have not been delivered: the
\* reader gets the first k of them and then done
StreamCut(k) ==
    /\ ~closed
    /\ k \in 0..(Len(wire) - 1)
    /\ closed' = TRUE
    /\ wire' = SubSeq(wire, 1, k)
    /\ UNCHANGED <<written, buffer, pendingByte, dispatched, readerDone, ui>>
    /\ UNCHANGED <<wfVars, answers, writerVars, extractVars, percentVars, storeVars>>

NextCut ==
    \/ \E data \in CutEvents : WriteProgress(data)
    \/ StreamEnds
    \/ \E k \in 0..(Len(wire) - 1) : StreamCut(k)
    \/ \E n \in (1..MaxChunk) \cup {Len(wire)} : ReadChunk(n)
    \/ ReadDone

\* The dialog reading a stream that may end anywhere, also inside a line,
\* in chunks of at most MaxChunk bytes or with all there is at once.
SpecCut == Init /\ [][NextCut]_vars

\* the bytes this step's reader.read() resolved with, when it is a read
ChunkRead == SubSeq(wire, 1, Len(wire) - Len(wire'))

\* this step is a turn of the read loop for a chunk
IsRead == written' = written /\ closed' = closed /\ Len(wire') < Len(wire)

\* C26: the client never parses or dispatches the text that follows the
\* last newline received so far. A chunk that brings no newline dispatches
\* nothing and changes nothing in the dialog: its text is added to the
\* buffer; the buffer never holds a newline; and when the stream ends the
\* loop is left with nothing dispatched, whatever the buffer holds, and
\* nothing is dispatched afterwards.
C26_PartialLineNeverDispatched ==
    [][/\ IsRead =>
            LET d == Decode(pendingByte, ChunkRead) IN
            /\ Newlines(buffer') = {}
            /\ Newlines(d.text) = {} =>
                  /\ dispatched' = dispatched
                  /\ ui' = ui
                  /\ buffer' = buffer \o d.text
       /\ (readerDone' /\ ~readerDone) =>
            dispatched' = dispatched /\ ui' = ui /\ buffer' = buffer
       /\ readerDone => dispatched' = dispatched /\ ui' = ui]_vars

\* the stream ended after the whole text of an error record but before its
\* newline: the loop is left, the record is in the buffer and was not
\* dispatched
C26_Witness ==
    /\ readerDone
    /\ buffer = Stringify(ErrorEvent(<<EAcute>>))
    /\ dispatched = <<>>
    /\ ui.uploadState = "uploading"

\* ------------------------------------------ lines that are not records

\* Lines that are no record: an empty line, a line of white space, an
\* opening brace alone, a word.
MalformedLines == {<<>>, <<" ">>, <<"{">>, <<"o", "k">>}

\* a line that is no record, as it stands in `written`
Raw(text) == [raw |-> text]
IsRaw(w) == DOMAIN w = {"raw"}

\* a line that is no record reaches the response stream
WriteLine(text) ==
    /\ ~closed
    /\ Len(written) < MaxEvents
    /\ written' = Append(written, Raw(text))
    /\ wire' = wire \o Encode(text \o <<NL>>)
    /\ UNCHANGED <<closed, buffer, pendingByte, dispatched, readerDone, ui>>
    /\ UNCHANGED <<wfVars, answers, writerVars, extractVars, percentVars, storeVars>>

NextMalformed ==
    \/ \E data \in CutEvents : WriteProgress(data)
    \/ \E text \in MalformedLines : WriteLine(text)
    \/ StreamEnds
    \/ \E n \in (1..MaxChunk) \cup {Len(wire)} : ReadChunk(n)
    \/ ReadDone

\* The dialog reading a stream in which lines that are no records stand
\* between the records.
SpecMalformed == Init /\ [][NextMalformed]_vars

\* the records among the lines written
RECURSIVE RecordsOf(_)
RecordsOf(ws) ==
    IF ws = <<>> THEN <<>>
    ELSE (IF IsRaw(Head(ws)) THEN <<>> ELSE <<Head(ws)>>) \o RecordsOf(Tail(ws))

\* the dialog after these records were dispatched one after the other
RECURSIVE DispatchAll(_, _)
DispatchAll(u, records) ==
    IF records = <<>> THEN u
    ELSE DispatchAll(Dispatch(u, Head(records)), Tail(records))

\* C27: a line that is not valid JSON and an empty or whitespace-only line
\* are skipped. Once every byte written has been read, the records
\* dispatched are the records written, in order, and the dialog is in the
\* state these records alone put it in: the other lines changed nothing,
\* the loop went on after them and every later record was dispatched.
C27_MalformedLinesSkipped ==
    (wire = <<>>) =>
        /\ dispatched = RecordsOf(written)
        /\ ui = DispatchAll(StartState.ui, RecordsOf(written))
        /\ buffer = <<>>

\* a line holding an opening brace alone was read, then an error record,
\* which was dispatched; the loop has been left
C27_Witness ==
    /\ readerDone
    /\ written = <<Raw(<<"{">>), ErrorEvent(<<EAcute>>)>>
    /\ dispatched = <<ErrorEvent(<<EAcute>>)>>
    /\ ui.uploadState = "error"

\* --------------------------------------------- frame tasks after an abort

\* the frame tasks that leave processOneFrame in this step
Leaving == {i \in InFlight : tasks'[i].phase # "analysing"}

\* C28: when a frame task fails and the job aborts, the analyses in flight
\* are not cancelled. In every step at most one analysis ends; an analysis
\* in flight stays in flight until it returns (its progress write follows)
\* or fails itself; and in the step in which the workflow enters its catch
\* block the only task that ends is the one whose failure is caught.
C28_InFlightNotCancelled ==
    [][/\ Cardinality(Leaving) <= 1
       /\ \A i \in InFlight :
             /\ i \in DOMAIN tasks'
             /\ tasks'[i].phase \in {"analysing", "writing", "failed"}
             /\ (tasks'[i].phase = "failed" /\ caught = None) =>
                    caught' # None /\ caught'[1].at = i
       /\ (caught = None /\ caught' # None /\ pc = "analysing") =>
             \A i \in DOMAIN tasks :
                 tasks'[i].phase # tasks[i].phase =>
                     \/ i = caught'[1].at
                     \/ tasks[i].phase = "queued" /\ tasks'[i].phase = "analysing"]_vars

\* the task of one frame failed and the error record was written while the
\* analysis of the other frame was in flight; that analysis went on, and its
\* frameProcessed record stands after the error record
C28_Witness ==
    /\ Len(tasks) = 2
    /\ tasks[1].phase = "failed"
    /\ tasks[2].phase = "done"
    /\ \E j, k \in 1..Len(stream) :
          j < k /\ IsErrorRec(stream[j]) /\ IsFrameProcessedRec(stream[k])

\* ------------------------------------------------ cleanup on termination

\* C29: whenever the workflow has terminated, by returning or by throwing,
\* after uploadVideoToBlob returned the url of the stored video, a deletion
\* of that video has been attempted.
C29_DeletionAlwaysAttempted ==
    (Terminated /\ videoUrl # None) => delCalls # <<>>

\* --------------------------------------------------- fallback incidents

\* the incident carries a mark telling that its classification is the
\* fallback one
MarkedFallback(inc) == "fallback" \in DOMAIN inc /\ inc.fallback = TRUE

\* C30: an incident that comes from the fallback classification is marked
\* as fallback in the job result of the complete record.
C30_FallbackIncidentsMarked ==
    returned # None =>
        \A i \in DOMAIN tasks :
            (tasks[i].incident # None /\ tasks[i].moderation[1].fallback) =>
                \E k \in 1..Len(returned[1].incidents) :
                    /\ returned[1].incidents[k].timestamp = frames[i].timestamp
                    /\ MarkedFallback(returned[1].incidents[k])

\* ------------------------------------------- frames held by extractFrames

\* the frames whose bytes extractFrames holds in memory: each frame read
\* stays in its {buffer, timestamp, filename} object, which is returned
FramesHeld == extraction.read

\* the frames stored in blob storage by extractFrames (put(`frames/...`))
FrameBlobs == {b \in blobs : b.name[1] = "frames"}

\* C31: extractFrames stores each frame in object storage as soon as it is
\* read and drops its bytes: at any time it holds the bytes of at most one
\* frame, and when it has returned it holds none and every frame read is in
\* storage.
C31_AtMostOneFrameHeld ==
    /\ Cardinality(FramesHeld) <= 1
    /\ extraction.pc = "returned" =>
          FramesHeld = {} /\ Cardinality(FrameBlobs) = Cardinality(extraction.read)

\* --------------------------------------------- stored videos after a job

\* the source-video objects this job has stored that are still in storage
SourceVideosLeft == {k \in 1..Len(uploadedUrls) : uploadedUrls[k] \in blobs}

\* C32: after a job that completed successfully (it returned, and its
\* deletion of the source did not fail) no source-video object uploaded by
\* the job remains in storage, also when uploadVideoToBlob was executed
\* more than once.
C32_NoSourceVideoLeft ==
    (pc = "returned" /\ "delete" \notin faults) => SourceVideosLeft = {}

\* -------------------------------------------- a failed screenshot upload

\* C33: an exception of the screenshot upload of a flagged frame is not
\* absorbed at frame scope. Once it was thrown, the task of that frame has
\* rejected, the workflow is in its catch block or has thrown, it never
\* returns a result and no complete record is written; and when the catch
\* block has got past its write, the error record is in the stream.
C33_ScreenshotFailureAborts ==
    "screenshot" \in faults =>
        /\ InPhase("failed") # {}
        /\ pc \in {"w_error", "c_deleting", "thrown"}
        /\ caught # None
        /\ returned = None
        /\ CountIf(stream, IsCompleteRec) = 0
        /\ (pc = "c_deleting" \/ \E k \in 1..Len(delCalls) : IsCatchCall(delCalls[k])) =>
              CountIf(stream, IsErrorRec) = 1

\* the screenshot upload of a frame threw; the error record carrying that
\* failure was written, the source was deleted and the workflow has thrown
C33_Witness ==
    /\ pc = "thrown"
    /\ faults = {"screenshot"}
    /\ caught[1].kind = "screenshot"
    /\ \E k \in 1..Len(stream) : stream[k] = ErrorRec(caught[1])
    /\ delCalls = <<DelCall("catch", TRUE)>>

\* ------------------------------------------------- C34: terminal upload state

\* the positions of the error and complete records among those dispatched
TerminalDispatched ==
    {k \in 1..Len(dispatched) :
        IsType(dispatched[k], "error") \/ IsType(dispatched[k], "complete")}

FirstTerminalDispatched ==
    CHOOSE k \in TerminalDispatched : \A j \in TerminalDispatched : k <= j

\* C34: once an error record (upload state error) or a complete record
\* (upload state success) has been dispatched, no later record of the stream
\* changes the upload state: it is the one the first terminal record set.
\* In particular a frameProcessed record dispatched after an error record
\* does not put the dialog back into processing.
C34_TerminalStateSticks ==
    TerminalDispatched # {} =>
        ui.uploadState =
            IF IsType(dispatched[FirstTerminalDispatched], "error")
            THEN "error" ELSE "success"

\* ------------------------------------ C35: the stages shown during one job

\* JSON.parse(JSON.stringify(data)) of a record of the workflow: the value
\* the dialog dispatches for it (an error message is kept as one token)
AsUpdate(rec) ==
    IF rec.type = "progress"
    THEN IF "totalFrames" \in DOMAIN rec
         THEN JObj(<<<<Str("type"), JStr(Str("progress"))>>,
                     <<Str("step"), JStr(Str(rec.step))>>,
                     <<Str("totalFrames"), JNum(rec.totalFrames)>>,
                     <<Str("percent"), JNum(rec.percent)>>>>)
         ELSE ProgressEvent(rec.step, rec.percent)
    ELSE IF rec.type = "frameProcessed"
    THEN JObj(<<<<Str("type"), JStr(Str("frameProcessed"))>>,
                <<Str("current"), JNum(rec.current)>>,
                <<Str("total"), JNum(rec.total)>>,
                <<Str("percent"), JNum(rec.percent)>>>>)
    ELSE IF rec.type = "complete"
    THEN JObj(<<<<Str("type"), JStr(Str("complete"))>>,
                <<Str("percent"), JNum(rec.percent)>>,
                <<Str("result"),
                  JObj(<<<<Str("incidents"),
                           JArr([k \in 1..Len(rec.result.incidents) |->
                                    JNum(rec.result.incidents[k].timestamp)])>>,
                         <<Str("totalFrames"), JNum(rec.result.totalFrames)>>,
                         <<Str("processedAt"), JStr(<<"T">>)>>,
                         <<Str("metadata"),
                           JObj(<<<<Str("filename"), JStr(<<"a">>)>>>>)>>>>)>>>>)
    ELSE ErrorEvent(<<rec.message>>)

\* the read loop dispatches the next record of the job's stream
DialogReceives ==
    /\ Len(dispatched) < Len(stream)
    /\ \E update \in {AsUpdate(stream[Len(dispatched) + 1])} :
          /\ ui' = Dispatch(ui, update)
          /\ dispatched' = Append(dispatched, update)
    /\ UNCHANGED <<written, wire, closed, buffer, pendingByte, readerDone>>
    /\ UNCHANGED <<wfVars, answers, writerVars, extractVars, percentVars, storeVars>>

NextJob ==
    \/ Next
    \/ DialogReceives

\* One job and the dialog that consumes its stream, record by record, at
\* its own pace.
SpecJob == Init /\ [][NextJob]_vars

StageStatus(k) == ui.stages[StageIds[k]].status

StagesInProgress == {k \in 1..Len(StageIds) : StageStatus(k) = "in_progress"}

\* C35: while the dialog consumes the stream of one job, at most one stage
\* (started, upload, extract, process, cleanup) is in_progress, and every
\* stage listed before a stage that is in_progress or completed is itself
\* completed.
C35_StagesAdvanceInOrder ==
    /\ Cardinality(StagesInProgress) <= 1
    /\ \A k \in 1..Len(StageIds) :
          StageStatus(k) \in {"in_progress", "completed"} =>
              \A j \in 1..(k - 1) : StageStatus(j) = "completed"

\* Both frames' records were dispatched while "process" was in progress, then
\* the cleanup and complete records: every stage is completed.
C35_Witness ==
    /\ Len(dispatched) = Len(stream)
    /\ Cardinality({k \in 1..Len(dispatched) :
                       IsType(dispatched[k], "frameProcessed")}) = 2
    /\ ui.uploadState = "success"
    /\ \A k \in 1..Len(StageIds) : StageStatus(k) = "completed"

\* ------------------------------ C36: the percent of a frameProcessed record

\* const percent = 40 + Math.floor((processedCount / totalFrames) * 50),
\* evaluated by the frame task that counted frame `count` of `total`
PercentEvaluated(count, total) ==
    /\ percentOf' = Some([current |-> count, total |-> total,
                          percent |-> FrameProcessedRec(count, total).percent])
    /\ UNCHANGED <<wfVars, answers, clientVars, writerVars, extractVars, storeVars>>

NextPercent ==
    \E total \in 1..MaxTotal : \E count \in 1..total : PercentEvaluated(count, total)

\* The percent expression on every count of every job of at most MaxTotal
\* frames.
SpecPercent == Init /\ [][NextPercent]_vars

\* C36: every frameProcessed record carries
\* percent = 40 + floor(50 * current / total), which lies in [40, 90] for
\* 1 <= current <= total; the record with current = total carries 90, below
\* the 95 of the cleanup record.
C36_PercentFormula ==
    percentOf # None =>
        LET rec == percentOf[1] IN
        /\ rec.percent = 40 + ((50 * rec.current) \div rec.total)
        /\ rec.percent \in 40..90
        /\ rec.current = rec.total =>
              rec.percent = 90 /\ rec.percent < ProgressRec("cleanup", 95).percent

\* C36, amended: every frameProcessed record carries
\* percent = 40 + Math.floor((current / total) * 50) as double arithmetic
\* evaluates it, which is 40 + floor(50 * current / total) or, only when
\* total divides 50 * current, one less; it lies in [40, 90] for
\* 1 <= current <= total, and the record with current = total carries 90,
\* below the 95 of the cleanup record.
C36_PercentInDoubles ==
    percentOf # None =>
        LET rec == percentOf[1]
            exact == 40 + ((50 * rec.current) \div rec.total)
        IN /\ rec.percent \in {exact - 1, exact}
           /\ (50 * rec.current) % rec.total # 0 => rec.percent = exact
           /\ rec.percent \in 40..90
           /\ rec.current = rec.total =>
                 rec.percent = 90 /\ rec.percent < ProgressRec("cleanup", 95).percent

\* Frame 29 of 50: 29 / 50 is rounded down to a double, its product with 50
\* to the double below 29, and the record carries 68 where the exact
\* quotient gives 69.
C36_Witness ==
    /\ percentOf # None
    /\ percentOf[1].current = 29
    /\ percentOf[1].total = 50
    /\ percentOf[1].percent = 68

\* ------------------------------------------------ C37: progress of one job

\* Every step that was called returns or throws, and the workflow goes on
\* when one has: a step of the job that can be taken is eventually taken.
SpecFair == Spec /\ WF_vars(Next)

TerminalWritten == \E k \in 1..Len(stream) : IsTerminal(stream[k])

\* frame i was extracted / the limiter has started the task of frame i
Extracted(i) == i <= NumFrames
Admitted(i) == i \in DOMAIN tasks /\ tasks[i].phase # "queued"

\* every extracted frame is admitted to analysis, unless an exception
\* reaches the catch block of the workflow
NoFrameStarves == \A i \in 1..MaxLimitFrames : Extracted(i) ~> (Admitted(i) \/ caught # None)

\* C37: when every step eventually returns or throws and scheduling is fair,
\* every started job eventually writes a terminal record (complete or
\* error), and on a run in which nothing throws every extracted frame is
\* eventually admitted to analysis.
C37_TerminalRecordEventually ==
    /\ <>TerminalWritten
    /\ NoFrameStarves

\* -------------------------------------------------------- the video store

\* a word (a member name, an id, a title, a status) kept as one character
Key(word) == <<word>>

\* A FlaggedVideo as the store keeps it; of the members of the interface the
\* id, the title and the status are kept.
Video(id, title, status) ==
    JObj(<<<<Key("id"), JStr(Key(id))>>,
           <<Key("title"), JStr(Key(title))>>,
           <<Key("status"), JStr(Key(status))>>>>)

\* v.id
VideoId(v) == GetMember(v.obj, Key("id"))

\* getVideos(): [] when nothing is stored or the text does not parse,
\* JSON.parse(stored) otherwise (the store writes nothing but arrays)
getVideos(stored) ==
    IF stored = None \/ stored[1] = <<>> THEN <<>>
    ELSE LET parsed == JSONparse(stored[1])
         IN IF parsed = None THEN <<>> ELSE parsed[1].arr

\* videos.findIndex((v) => v.id === id), counted from 1; 0 for -1
FindIndex(videos, id) ==
    LET hits == {k \in 1..Len(videos) : VideoId(videos[k]) = id}
    IN IF hits = {} THEN 0 ELSE CHOOSE k \in hits : \A j \in hits : k <= j

\* localStorage.setItem(STORAGE_KEY, JSON.stringify(videos))
SetItem(videos) == Some(Stringify(JArr(videos)))

\* saveVideo with a fault seeded: the video is always put at the front.
saveVideoUnshiftsAlways(stored, video) ==
    SetItem(<<video>> \o getVideos(stored))

\* saveVideo(video): the item stored after the call
saveVideo(stored, video) ==
    LET videos == getVideos(stored)
        existingIndex == FindIndex(videos, VideoId(video))
    IN SetItem(IF existingIndex > 0
               THEN [videos EXCEPT ![existingIndex] = video]
               ELSE <<video>> \o videos)

\* getVideo(id): videos.find((v) => v.id === id) || null
getVideo(stored, id) ==
    LET videos == getVideos(stored)
        k == FindIndex(videos, JStr(Key(id)))
    IN IF k = 0 THEN Null ELSE videos[k]

\* object[key] = value: an own member keeps its place, a new one goes last
RECURSIVE SetMember(_, _, _)
SetMember(members, key, value) ==
    IF members = <<>> THEN <<<<key, value>>>>
    ELSE IF members[1][1] = key THEN <<<<key, value>>>> \o Tail(members)
    ELSE <<members[1]>> \o SetMember(Tail(members), key, value)

\* updateVideoStatus with a fault seeded: the status of every video is set.
updateVideoStatusOfAll(stored, id, status) ==
    LET videos == getVideos(stored)
        k == FindIndex(videos, JStr(Key(id)))
    IN IF k = 0 THEN [returns |-> FALSE, stored |-> stored]
       ELSE [returns |-> TRUE,
             stored |-> SetItem([j \in 1..Len(videos) |->
                           JObj(SetMember(videos[j].obj, Key("status"),
                                          JStr(Key(status))))])]

\* updateVideoStatus(id, status): what it returns and the item stored after
updateVideoStatus(stored, id, status) ==
    LET videos == getVideos(stored)
        k == FindIndex(videos, JStr(Key(id)))
    IN IF k = 0 THEN [returns |-> FALSE, stored |-> stored]
       ELSE [returns |-> TRUE,
             stored |-> SetItem([videos EXCEPT ![k] =
                           JObj(SetMember(@.obj, Key("status"), JStr(Key(status))))])]

\* deleteVideo(id): what it returns and the item stored after
deleteVideo(stored, id) ==
    LET videos == getVideos(stored)
        Kept(v) == VideoId(v) # JStr(Key(id))
        filtered == SelectSeq(videos, Kept)
    IN IF Len(filtered) = Len(videos) THEN [returns |-> FALSE, stored |-> stored]
       ELSE [returns |-> TRUE, stored |-> SetItem(filtered)]

\* the videos the dialog saves: workflowResultToFlaggedVideo sets status "flagged"
VideoIds == {"a", "b", "c"}
Titles == {"x", "y"}
SavedVideos == {Video(id, t, "flagged") : id \in VideoIds, t \in Titles}
\* video-detail-modal: updateVideoStatus(video.id, "approved")
Statuses == {"approved"}

\* a call made: the function, the id it is about, its other argument (a
\* video, a status) and what it returned
StoreCall(op, id, arg, returns) ==
    Some([op |-> op, id |-> id, arg |-> arg, returns |-> returns])

OutsideStore == <<wfVars, answers, clientVars, writerVars, extractVars, percentVars>>

SaveVideoCalled(video) ==
    /\ storage' = saveVideo(storage, video)
    /\ storeCall' = StoreCall("saveVideo", VideoId(video).str[1], video, None)
    /\ UNCHANGED OutsideStore

UpdateVideoStatusCalled(id, status) ==
    /\ \E r \in {updateVideoStatus(storage, id, status)} :
          /\ storage' = r.stored
          /\ storeCall' = StoreCall("updateVideoStatus", id, JStr(Key(status)),
                                  Some(r.returns))
    /\ UNCHANGED OutsideStore

DeleteVideoCalled(id) ==
    /\ \E r \in {deleteVideo(storage, id)} :
          /\ storage' = r.stored
          /\ storeCall' = StoreCall("deleteVideo", id, Null, Some(r.returns))
    /\ UNCHANGED OutsideStore

NextStore ==
    \/ \E video \in SavedVideos : SaveVideoCalled(video)
    \/ \E id \in VideoIds, status \in Statuses : UpdateVideoStatusCalled(id, status)
    \/ \E id \in VideoIds : DeleteVideoCalled(id)

\* Any sequence of calls of saveVideo, updateVideoStatus and deleteVideo on
\* a store that starts empty.
SpecStore == Init /\ [][NextStore]_vars

\* --------------------------------------------- C38: saveVideo and getVideo

Called(call, ops) == call # None /\ call[1].op \in ops

OnePerId(videos) ==
    \A j, k \in 1..Len(videos) : VideoId(videos[j]) = VideoId(videos[k]) => j = k

\* the step of a saveVideo call: an entry of the same id is replaced where it
\* is, a video of a new id goes to the front, and getVideo finds the video
SavedInPlaceOrAtFront ==
    LET before == getVideos(storage)
        after  == getVideos(storage')
        video  == storeCall'[1].arg
        Same(v) == VideoId(v) = VideoId(video)
    IN /\ IF \E k \in 1..Len(before) : Same(before[k])
          THEN /\ Len(after) = Len(before)
               /\ \A k \in 1..Len(before) :
                     after[k] = IF Same(before[k]) THEN video ELSE before[k]
          ELSE after = <<video>> \o before
       /\ getVideo(storage', storeCall'[1].id) = video

\* C38: after any sequence of saveVideo, updateVideoStatus and deleteVideo
\* calls the stored list holds at most one video per id; saveVideo of an id
\* already stored replaces that entry in place, saveVideo of a new id puts
\* the video at the front, and getVideo(id) then returns the video saved.
C38_SaveReplacesOrPrepends ==
    [][/\ OnePerId(getVideos(storage'))
       /\ Called(storeCall', {"saveVideo"}) => SavedInPlaceOrAtFront]_vars

\* Three videos are stored and the one just saved is the second of them: it
\* replaced the entry of its id where that was, and getVideo returns it.
C38_Witness ==
    /\ Called(storeCall, {"saveVideo"})
    /\ Len(getVideos(storage)) = 3
    /\ getVideos(storage)[2] = storeCall[1].arg
    /\ getVideo(storage, storeCall[1].id) = storeCall[1].arg
    /\ GetMember(getVideos(storage)[1].obj, Key("status")) = JStr(Key("approved"))

\* ------------------------------------ C39: updateVideoStatus, deleteVideo

\* the step of an updateVideoStatus or deleteVideo call
OnlyThatVideoChanged ==
    LET before == getVideos(storage)
        after  == getVideos(storage')
        call   == storeCall'[1]
        Hit(v) == VideoId(v) = JStr(Key(call.id))
        Other(v) == ~Hit(v)
    IN IF \A k \in 1..Len(before) : ~Hit(before[k])
       THEN call.returns = Some(FALSE) /\ storage' = storage
       ELSE /\ call.returns = Some(TRUE)
            /\ IF call.op = "deleteVideo"
               THEN after = SelectSeq(before, Other)
               ELSE /\ Len(after) = Len(before)
                    /\ \A k \in 1..Len(before) :
                          IF Hit(before[k])
                          THEN /\ GetMember(after[k].obj, Key("status")) = call.arg
                               /\ \A m \in {"id", "title"} :
                                     GetMember(after[k].obj, Key(m)) =
                                     GetMember(before[k].obj, Key(m))
                          ELSE after[k] = before[k]

\* C39: updateVideoStatus and deleteVideo called with an id that is not
\* stored return false and leave the stored list unchanged; called with a
\* stored id they return true and change only that video (its status is
\* set, or it is removed); every other video and the order of the list are
\* as before.
C39_OnlyTheNamedVideoChanges ==
    [][Called(storeCall', {"updateVideoStatus", "deleteVideo"})
          => OnlyThatVideoChanged]_vars

\* Of three videos stored the second was approved by the call just made,
\* which returned true; the first and the third are flagged as before.
C39_Witness ==
    /\ Called(storeCall, {"updateVideoStatus"})
    /\ storeCall[1].returns = Some(TRUE)
    /\ Len(getVideos(storage)) = 3
    /\ VideoId(getVideos(storage)[2]) = JStr(Key(storeCall[1].id))
    /\ \A k \in 1..3 :
          GetMember(getVideos(storage)[k].obj, Key("status")) =
              JStr(Key(IF k = 2 THEN "approved" ELSE "flagged"))

====
